---- MODULE Spec2Model ----
(***************************************************************************)
(* A model of the fx-bot trading engine: the SMC indicator engine          *)
(* (quant/indicators/mean_reversion.py), the entry algorithm               *)
(* (quant/algorithms/mean_reversion/entry.py) and the PnL arithmetic       *)
(* (utils/arithmetics.py).                                                 *)
(*                                                                         *)
(* Prices are integers counted in half points (1 unit = 0.000005 for a     *)
(* 5-digit symbol) and every bar price is an even number, so the 50%       *)
(* midpoint of a gap, bottom + (top - bottom) * 0.5, is a whole number of  *)
(* units.  The program holds prices and money in binary floats: where two  *)
(* quantities differ in units their floats compare the same way, and where *)
(* they are equal in units, or a value is rounded, the floats are computed *)
(* bit for bit (the float library below).                                  *)
(* Bar series are indexed from 0 as in the source; At and iloc translate   *)
(* to TLA+'s 1-based sequences.                                            *)
(***************************************************************************)
EXTENDS Integers, Sequences, FiniteSets, TLC

VARIABLES
    bars,       \* SMC: the OHLC series handed to get_smc_setup
    atrv,       \* SMC: the level of the ATR series pandas_ta returns for it
    setup,      \* SMC: what get_smc_setup returned for bars
    arith,      \* PnL arithmetic: the arguments of a call chain and its results
    ai,         \* AI gate: the classifier's answer and get_ai_approval's decision
    now,        \* entry: timezone.now(), in hours
    account,    \* entry: the broker account that account_info() reads
    positions,  \* entry: the positions open at the broker
    trades,     \* entry: the rows of the Trade table
    sent,       \* entry: the orders handed to send_market_order, in order
    cycle,      \* entry: the running call of entry_algorithm
    closing,    \* close: the running call of close_algorithm
    last        \* entry: what the latest step of entry_algorithm met and did

smcVars == <<bars, atrv, setup>>

entryVars == <<now, account, positions, trades, sent, cycle, closing, last>>

vars == <<bars, atrv, setup, arith, ai, now, account, positions, trades, sent, cycle,
         closing, last>>

-----------------------------------------------------------------------------
(* Bounds and program constants                                            *)

\* longest series the SMC specification builds
MaxBars == 30
\* number of flat history bars every series starts with
PrefixLen == 25

\* get_smc_setup(df, sweep_lookback=20, displacement_threshold=1.5) as called
\* by entry_algorithm
SWEEP_LOOKBACK == 20
\* recent_bars = 10 in get_smc_setup
RECENT_BARS == 10
\* range(max(0, i - 5), i): the sweep search window of get_smc_setup
SWEEP_WINDOW == 5
\* detect_swing_points(df.copy(), lookback=5) in get_smc_setup
SWING_LOOKBACK == 5
\* detect_inducement(df, i, fvg_type, lookback=8)
INDUCEMENT_LOOKBACK == 8
\* detect_displacement(..., atr_period=14)
ATR_PERIOD == 14

-----------------------------------------------------------------------------
(* Helpers                                                                 *)

Max2(a, b) == IF a >= b THEN a ELSE b
Min2(a, b) == IF a <= b THEN a ELSE b
Abs(x) == IF x < 0 THEN -x ELSE x

\* a missing value (NaN / None) is the empty set, a present value v is {v}
NaN == {}
Val(x) == CHOOSE v \in x : TRUE

\* 0-based access, and pandas' .iloc[i], where a negative i counts from the end
At(s, i) == s[i + 1]
iloc(s, i) == IF i < 0 THEN s[Len(s) + i + 1] ELSE s[i + 1]

Bar(o, h, l, c) == [open |-> o, high |-> h, low |-> l, close |-> c]

\* max / min of a column over the 0-based index range a..b (a <= b)
RECURSIVE RangeMaxHigh(_, _, _)
RangeMaxHigh(df, a, b) ==
    IF a = b THEN At(df, a).high
    ELSE Max2(At(df, b).high, RangeMaxHigh(df, a, b - 1))

RECURSIVE RangeMinLow(_, _, _)
RangeMinLow(df, a, b) ==
    IF a = b THEN At(df, a).low
    ELSE Min2(At(df, b).low, RangeMinLow(df, a, b - 1))

-----------------------------------------------------------------------------
(* Python's float: IEEE 754 binary64 with round-to-nearest, ties-to-even.   *)
(* A natural number of any size is the sequence of its 15-bit limbs, least  *)
(* significant first, without leading zero limbs (0 is << >>).  A finite    *)
(* float is [neg, m, e] and stands for (-1)^neg * m * 2^e, where m is zero  *)
(* or has exactly 53 bits; subnormals, infinities and NaNs are outside the  *)
(* range of the values computed here                                        *)

RECURSIVE NNorm(_)
NNorm(a) ==
    IF a # << >> /\ a[Len(a)] = 0 THEN NNorm(SubSeq(a, 1, Len(a) - 1)) ELSE a

RECURSIVE NOfInt(_)
NOfInt(n) == IF n = 0 THEN << >> ELSE <<n % 32768>> \o NOfInt(n \div 32768)

RECURSIVE NToInt(_)
NToInt(a) == IF a = << >> THEN 0 ELSE a[1] + 32768 * NToInt(Tail(a))

NLimb(a, i) == IF i <= Len(a) THEN a[i] ELSE 0

RECURSIVE NAddFrom(_, _, _, _)
NAddFrom(a, b, i, carry) ==
    IF i > Len(a) /\ i > Len(b) THEN (IF carry = 0 THEN << >> ELSE <<carry>>)
    ELSE LET t == NLimb(a, i) + NLimb(b, i) + carry
         IN  <<t % 32768>> \o NAddFrom(a, b, i + 1, t \div 32768)

NAdd(a, b) == NAddFrom(a, b, 1, 0)

RECURSIVE NSubFrom(_, _, _, _)
NSubFrom(a, b, i, borrow) ==
    IF i > Len(a) THEN << >>
    ELSE LET t == a[i] - NLimb(b, i) - borrow
         IN  IF t < 0 THEN <<t + 32768>> \o NSubFrom(a, b, i + 1, 1)
             ELSE <<t>> \o NSubFrom(a, b, i + 1, 0)

\* a - b for a >= b
NSub(a, b) == NNorm(NSubFrom(a, b, 1, 0))

RECURSIVE NCmpFrom(_, _, _)
NCmpFrom(a, b, i) ==
    IF i = 0 THEN 0
    ELSE IF a[i] < b[i] THEN -1
    ELSE IF a[i] > b[i] THEN 1
    ELSE NCmpFrom(a, b, i - 1)

\* -1, 0, 1 as a < b, a = b, a > b
NCmp(a, b) ==
    IF Len(a) < Len(b) THEN -1
    ELSE IF Len(a) > Len(b) THEN 1
    ELSE NCmpFrom(a, b, Len(a))

RECURSIVE NMulSmallFrom(_, _, _, _)
NMulSmallFrom(a, k, i, carry) ==
    IF i > Len(a) THEN (IF carry = 0 THEN << >> ELSE <<carry>>)
    ELSE LET t == a[i] * k + carry
         IN  <<t % 32768>> \o NMulSmallFrom(a, k, i + 1, t \div 32768)

\* a * k for 0 <= k < 2^15
NMulSmall(a, k) == IF k = 0 THEN << >> ELSE NMulSmallFrom(a, k, 1, 0)

\* a * 2^(15 n)
NShiftLimbs(a, n) == IF a = << >> THEN << >> ELSE [i \in 1..n |-> 0] \o a

RECURSIVE NMulFrom(_, _, _)
NMulFrom(a, b, j) ==
    IF j > Len(b) THEN << >>
    ELSE NAdd(NShiftLimbs(NMulSmall(a, b[j]), j - 1), NMulFrom(a, b, j + 1))

NMul(a, b) == NMulFrom(a, b, 1)

RECURSIVE BitLenSmall(_)
BitLenSmall(k) == IF k = 0 THEN 0 ELSE 1 + BitLenSmall(k \div 2)

\* the number of bits of a
NBitLen(a) == IF a = << >> THEN 0 ELSE 15 * (Len(a) - 1) + BitLenSmall(a[Len(a)])

\* bit i of a (bit 0 is the lowest)
NBit(a, i) == (NLimb(a, i \div 15 + 1) \div 2 ^ (i % 15)) % 2

\* a * 2^k
NShl(a, k) == NShiftLimbs(NMulSmall(a, 2 ^ (k % 15)), k \div 15)

\* a \div 2^k
NShrBits(rest, s) ==
    NNorm([i \in 1..Len(rest) |->
             (rest[i] \div 2 ^ s) + (NLimb(rest, i + 1) % 2 ^ s) * 2 ^ (15 - s)])
NShr(a, k) ==
    NShrBits(IF k \div 15 >= Len(a) THEN << >> ELSE SubSeq(a, k \div 15 + 1, Len(a)),
             k % 15)

\* a % 2^k
NLow(a, k) == NSub(a, NShl(NShr(a, k), k))

\* long division of a by b: q and r are the quotient and the remainder of
\* the bits of a above bit i, the bits i and below are still to bring down
RECURSIVE NDivBits(_, _, _, _, _)
NDivBits(a, b, i, q, r) ==
    IF i < 0 THEN [q |-> q, r |-> r]
    ELSE LET r2 == NAdd(NShl(r, 1), NOfInt(NBit(a, i)))
         IN  IF Len(q) >= 0 /\ NCmp(r2, b) >= 0
             THEN NDivBits(a, b, i - 1, NAdd(NShl(q, 1), <<1>>), NSub(r2, b))
             ELSE NDivBits(a, b, i - 1, NShl(q, 1), r2)

\* quotient and remainder of a by b (b > 0), bit by bit: the leading bits
\* of a, one fewer than b has, are below b
NDivLongFrom(a, b, s) == NDivBits(a, b, s - 1, << >>, NShr(a, s))
NDivLong(a, b) ==
    NDivLongFrom(a, b, IF NBitLen(a) >= NBitLen(b)
                       THEN NBitLen(a) - NBitLen(b) + 1 ELSE 0)

\* short division of a by d (0 < d < 2^15), limb by limb from limb i down:
\* q holds the limbs of the quotient above limb i, r is the remainder so far
RECURSIVE NDivSmallFrom(_, _, _, _, _)
NDivSmallFrom(a, d, i, q, r) ==
    IF i = 0 THEN [q |-> NNorm(q), r |-> r]
    ELSE LET cur == r * 32768 + a[i]
         IN  NDivSmallFrom(a, d, i - 1, <<cur \div d>> \o q, cur % d)

RECURSIVE TrailingZerosSmall(_)
TrailingZerosSmall(k) == IF k % 2 = 1 THEN 0 ELSE 1 + TrailingZerosSmall(k \div 2)

\* the number of zero bits at the low end of a (a > 0)
RECURSIVE NTrailingZeros(_)
NTrailingZeros(a) ==
    IF a[1] = 0 THEN 15 + NTrailingZeros(Tail(a)) ELSE TrailingZerosSmall(a[1])

\* quotient and remainder of a by b (b > 0).  With b = odd * 2^t and an odd
\* part of one limb, a \div 2^t is divided by the odd part limb by limb and
\* the low t bits of a go to the remainder
NDivShortJoin(a, t, d) == [q |-> d.q, r |-> NAdd(NShl(NOfInt(d.r), t), NLow(a, t))]
NDivShort(a, t, odd, hi) == NDivShortJoin(a, t, NDivSmallFrom(hi, odd, Len(hi), << >>, 0))
NDivModOdd(a, b, t, odd) ==
    IF Len(odd) > 1 THEN NDivLong(a, b) ELSE NDivShort(a, t, odd[1], NShr(a, t))
NDivModBy(a, b, t) == NDivModOdd(a, b, t, NShr(b, t))
NDivMod(a, b) == NDivModBy(a, b, NTrailingZeros(b))

FZero == [neg |-> FALSE, m |-> << >>, e |-> 0]

\* the float nearest to (-1)^neg * (M + d) * 2^E, where 0 <= d < 1 and d > 0
\* iff sticky; a tie goes to the even mantissa
\* m1 is the mantissa after rounding: 53 bits, or 2^53 when it carried
FRoundCarry(neg, m1, E) ==
    IF NBitLen(m1) > 53 THEN [neg |-> neg, m |-> NShr(m1, 1), e |-> E + 1]
    ELSE [neg |-> neg, m |-> m1, e |-> E]
\* kept are the 53 leading bits of M; c is -1, 0, 1 as the bits cut off are
\* below, at or above one half of the last bit kept
FRoundKept(neg, kept, c, E, sticky) ==
    FRoundCarry(neg,
                IF c > 0 \/ (c = 0 /\ (sticky \/ kept[1] % 2 = 1))
                THEN NAdd(kept, <<1>>) ELSE kept,
                E)
\* n is the number of bits of M
FRoundBits(neg, M, E, sticky, n) ==
    IF n = 0 THEN FZero
    ELSE IF n <= 53 THEN [neg |-> neg, m |-> NShl(M, 53 - n), e |-> E - (53 - n)]
    ELSE FRoundKept(neg, NShr(M, n - 53),
                    NCmp(NLow(M, n - 53), NShl(<<1>>, n - 54)), E + (n - 53), sticky)
FRound(neg, M, E, sticky) == FRoundBits(neg, M, E, sticky, NBitLen(M))

\* float(n) of a whole number n
FOfInt(n) == FRound(n < 0, NOfInt(IF n < 0 THEN -n ELSE n), 0, FALSE)

FNeg(x) == IF x.m = << >> THEN x ELSE [x EXCEPT !.neg = ~x.neg]
FAbs(x) == [x EXCEPT !.neg = FALSE]

\* x + y
\* Mx and My are the mantissas of x and y at the common exponent e, c is
\* -1, 0, 1 as Mx < My, Mx = My, Mx > My; equal magnitudes of opposite sign
\* give zero
FAddAt(x, y, Mx, My, e, c) ==
    FRound(IF x.neg = y.neg \/ c > 0 THEN x.neg ELSE y.neg,
           IF x.neg = y.neg THEN NAdd(Mx, My)
           ELSE IF c >= 0 THEN NSub(Mx, My) ELSE NSub(My, Mx),
           e, FALSE)
FAddAligned(x, y, Mx, My, e) == FAddAt(x, y, Mx, My, e, NCmp(Mx, My))
FAddFrom(x, y, e) == FAddAligned(x, y, NShl(x.m, x.e - e), NShl(y.m, y.e - e), e)
FAdd(x, y) ==
    IF x.m = << >> THEN y
    ELSE IF y.m = << >> THEN x
    ELSE FAddFrom(x, y, IF x.e <= y.e THEN x.e ELSE y.e)

\* x - y
FSub(x, y) == FAdd(x, FNeg(y))

\* x * y
FMul(x, y) ==
    IF x.m = << >> \/ y.m = << >> THEN FZero
    ELSE FRound(x.neg # y.neg, NMul(x.m, y.m), x.e + y.e, FALSE)

\* x / y for y # 0
FDivOf(x, y, d) == FRound(x.neg # y.neg, d.q, x.e - y.e - 56, d.r # << >>)
FDiv(x, y) ==
    IF x.m = << >> THEN FZero ELSE FDivOf(x, y, NDivMod(NShl(x.m, 56), y.m))

\* the float of the literal n / d (whole n and d, d > 0): the nearest float
FOfRatio(n, d) == FDiv(FOfInt(n), FOfInt(d))

\* -1, 0, 1 as x < y, x = y, x > y
FCmp(x, y) ==
    LET mag == IF x.m = << >> /\ y.m = << >> THEN 0
               ELSE IF x.m = << >> THEN -1
               ELSE IF y.m = << >> THEN 1
               ELSE IF x.e < y.e THEN -1
               ELSE IF x.e > y.e THEN 1
               ELSE NCmp(x.m, y.m)
    IN  IF x.neg /\ ~y.neg THEN -1
        ELSE IF ~x.neg /\ y.neg THEN 1
        ELSE IF x.neg THEN -mag ELSE mag

\* round(x * p) to a whole number as round(x, ndigits) does for p =
\* 10^ndigits: the decimal nearest to the float's exact value, a tie going to
\* the even digit
FRoundWhole(neg, q) == IF neg THEN -q ELSE q
\* q0 is the whole part of N / 2^k; c is -1, 0, 1 as the rest is below, at or
\* above one half
FRoundHalf(neg, q0, c) ==
    FRoundWhole(neg, NToInt(q0) + (IF c > 0 \/ (c = 0 /\ NBit(q0, 0) = 1) THEN 1 ELSE 0))
\* N * 2^x.e is the exact value of |x| * p
FRoundScaled(x, N) ==
    IF x.e >= 0 THEN FRoundWhole(x.neg, NToInt(NShl(N, x.e)))
    ELSE FRoundHalf(x.neg, NShr(N, -x.e), NCmp(NLow(N, -x.e), NShl(<<1>>, -x.e - 1)))
FRoundTimes(x, p) == FRoundScaled(x, NMul(x.m, NOfInt(p)))

\* a price of 5 decimals is a whole number of points, one point is two units
UNITS_PER_POINT == 2

\* the float of a price given in units: the float nearest to its decimal
PriceFloat(u) == FOfRatio(u, UNITS_PER_POINT * 100000)

\* gap_bottom + (gap_top - gap_bottom) * 0.5
MidpointOf(bottom, top) == FAdd(bottom, FMul(FSub(top, bottom), FOfRatio(1, 2)))
MidpointFloat(gap_bottom, gap_top) == MidpointOf(PriceFloat(gap_bottom), PriceFloat(gap_top))

\* The prices of a series are counted in units and compared in units.  The
\* code compares their floats, which lie within a rounding error of the
\* decimals; the two agree unless the two sides are equal in units, and then
\* the floats decide.

\* -1, 0, 1 as the price is below, at or above
\* midpoint = gap_bottom + (gap_top - gap_bottom) * 0.5
CmpMidpoint(price, gap_bottom, gap_top) ==
    IF 2 * price < gap_bottom + gap_top THEN -1
    ELSE IF 2 * price > gap_bottom + gap_top THEN 1
    ELSE FCmp(PriceFloat(price), MidpointFloat(gap_bottom, gap_top))

\* (close - open).abs() > atr * 1.5 on a bar, atr being the float of `level`
BodyAboveAtr(bar, level) ==
    LET body_size == Abs(bar.close - bar.open) IN
    IF 2 * body_size # 3 * level THEN 2 * body_size > 3 * level
    ELSE FCmp(FAbs(FSub(PriceFloat(bar.close), PriceFloat(bar.open))),
              FMul(PriceFloat(level), FOfRatio(3, 2))) > 0

-----------------------------------------------------------------------------
(* quant/indicators/mean_reversion.py                                      *)

\* detect_swing_points comparing a bar with the bars before it only
detect_swing_points_LeftOnly(df, lookback) ==
    LET n == Len(df)
        full(i) == i - lookback >= 0 /\ i + lookback <= n - 1
    IN  [swing_high |->
            [k \in 1..n |->
                LET i == k - 1 IN
                IF full(i) /\ At(df, i).high = RangeMaxHigh(df, i - lookback, i)
                THEN {At(df, i).high} ELSE NaN],
         swing_low |->
            [k \in 1..n |->
                LET i == k - 1 IN
                IF full(i) /\ At(df, i).low = RangeMinLow(df, i - lookback, i)
                THEN {At(df, i).low} ELSE NaN]]

\* rolling(window, center=True).max() is NaN where the centred window is not
\* complete; a bar is a swing point where it equals the rolling extreme
detect_swing_points(df, lookback) ==
    LET n == Len(df)
        full(i) == i - lookback >= 0 /\ i + lookback <= n - 1
    IN  [swing_high |->
            [k \in 1..n |->
                LET i == k - 1 IN
                IF full(i) /\ At(df, i).high = RangeMaxHigh(df, i - lookback, i + lookback)
                THEN {At(df, i).high} ELSE NaN],
         swing_low |->
            [k \in 1..n |->
                LET i == k - 1 IN
                IF full(i) /\ At(df, i).low = RangeMinLow(df, i - lookback, i + lookback)
                THEN {At(df, i).low} ELSE NaN]]

\* pd.Series(None, index=df.index, dtype=object): a series built without
\* data holds the missing-value marker NaN, which is not the None object,
\* wherever no label is assigned afterwards
NoLabel == "NaN"

\* detect_liquidity_sweep with the bullish assignment made last
detect_liquidity_sweep_BullishLast(df, sweep_lookback) ==
    [k \in 1..Len(df) |->
        LET i == k - 1
            defined == i >= sweep_lookback /\ sweep_lookback >= 1
            lowest_low == RangeMinLow(df, i - sweep_lookback, i - 1)
            highest_high == RangeMaxHigh(df, i - sweep_lookback, i - 1)
            bullish_sweep == defined /\ At(df, i).low < lowest_low
                                     /\ At(df, i).close > lowest_low
            bearish_sweep == defined /\ At(df, i).high > highest_high
                                     /\ At(df, i).close < highest_high
        IN  IF bullish_sweep THEN "BULLISH_SWEEP"
            ELSE IF bearish_sweep THEN "BEARISH_SWEEP"
            ELSE NoLabel]

\* rolling(window=sweep_lookback).min().shift(1): the extreme of bars
\* [i - sweep_lookback, i - 1], NaN for the first sweep_lookback bars.
\* The bearish assignment comes second and overwrites the bullish one.
detect_liquidity_sweep(df, sweep_lookback) ==
    [k \in 1..Len(df) |->
        LET i == k - 1
            defined == i >= sweep_lookback /\ sweep_lookback >= 1
            lowest_low == RangeMinLow(df, i - sweep_lookback, i - 1)
            highest_high == RangeMaxHigh(df, i - sweep_lookback, i - 1)
            bullish_sweep == defined /\ At(df, i).low < lowest_low
                                     /\ At(df, i).close > lowest_low
            bearish_sweep == defined /\ At(df, i).high > highest_high
                                     /\ At(df, i).close < highest_high
        IN  IF bearish_sweep THEN "BEARISH_SWEEP"
            ELSE IF bullish_sweep THEN "BULLISH_SWEEP"
            ELSE NoLabel]

\* ta.atr(high, low, close, length): the pandas_ta library is not part of the
\* repository; its series is NaN until `length` bars of history exist and is
\* the supplied level afterwards
ta_atr(df, length, level) ==
    [k \in 1..Len(df) |-> IF k - 1 < length THEN NaN ELSE {level}]

\* body_size > atr * threshold with threshold = 1.5; a comparison with a NaN
\* atr is false
detect_displacement(df, level, atr_period) ==
    LET atr == ta_atr(df, atr_period, level) IN
    [k \in 1..Len(df) |->
        LET is_displaced == atr[k] # NaN /\ BodyAboveAtr(df[k], Val(atr[k]))
            is_bullish == df[k].close > df[k].open
        IN  IF is_displaced /\ is_bullish THEN "BULLISH_DISPLACEMENT"
            ELSE IF is_displaced THEN "BEARISH_DISPLACEMENT"
            ELSE NoLabel]

NoFvg == [fvg_signal |-> "None", fvg_top |-> NaN, fvg_bottom |-> NaN,
          fvg_midpoint |-> NaN]

\* detect_fvg recording the bearish gap upside down
detect_fvg_BearishSwapped(df) ==
    [k \in 1..Len(df) |->
        LET i == k - 1 IN
        IF i < 2 THEN NoFvg
        ELSE IF At(df, i).low > At(df, i - 2).high
        THEN [fvg_signal |-> "BULLISH_FVG",
              fvg_top |-> {At(df, i).low},
              fvg_bottom |-> {At(df, i - 2).high},
              fvg_midpoint |-> {At(df, i - 2).high
                                  + (At(df, i).low - At(df, i - 2).high) \div 2}]
        ELSE IF At(df, i).high < At(df, i - 2).low
        THEN [fvg_signal |-> "BEARISH_FVG",
              fvg_top |-> {At(df, i).high},
              fvg_bottom |-> {At(df, i - 2).low},
              fvg_midpoint |-> {At(df, i).high
                                  + (At(df, i - 2).low - At(df, i).high) \div 2}]
        ELSE NoFvg]

detect_fvg(df) ==
    [k \in 1..Len(df) |->
        LET i == k - 1 IN
        IF i < 2 THEN NoFvg
        ELSE IF At(df, i).low > At(df, i - 2).high
        THEN [fvg_signal |-> "BULLISH_FVG",
              fvg_top |-> {At(df, i).low},
              fvg_bottom |-> {At(df, i - 2).high},
              fvg_midpoint |-> {At(df, i - 2).high
                                  + (At(df, i).low - At(df, i - 2).high) \div 2}]
        ELSE IF At(df, i).high < At(df, i - 2).low
        THEN [fvg_signal |-> "BEARISH_FVG",
              fvg_top |-> {At(df, i - 2).low},
              fvg_bottom |-> {At(df, i).high},
              fvg_midpoint |-> {At(df, i).high
                                  + (At(df, i - 2).low - At(df, i).high) \div 2}]
        ELSE NoFvg]

\* is_fvg_mitigated looking only at the bar right after the FVG bar
is_fvg_mitigated_NextBarOnly(df, fvg_index, fvg_type) ==
    IF fvg_index + 1 >= Len(df) THEN FALSE
    ELSE IF fvg_type = "BULLISH_FVG" THEN
        LET gap_top == iloc(df, fvg_index).low
            gap_bottom == iloc(df, fvg_index - 2).high
        IN  CmpMidpoint(At(df, fvg_index + 1).low, gap_bottom, gap_top) <= 0
    ELSE IF fvg_type = "BEARISH_FVG" THEN
        LET gap_top == iloc(df, fvg_index - 2).low
            gap_bottom == iloc(df, fvg_index).high
        IN  CmpMidpoint(At(df, fvg_index + 1).high, gap_bottom, gap_top) >= 0
    ELSE FALSE

\* is_fvg_mitigated looking only at the latest bar of the series
is_fvg_mitigated_LastBarOnly(df, fvg_index, fvg_type) ==
    IF fvg_index + 1 >= Len(df) THEN FALSE
    ELSE IF fvg_type = "BULLISH_FVG" THEN
        LET gap_top == iloc(df, fvg_index).low
            gap_bottom == iloc(df, fvg_index - 2).high
        IN  CmpMidpoint(At(df, Len(df) - 1).low, gap_bottom, gap_top) <= 0
    ELSE IF fvg_type = "BEARISH_FVG" THEN
        LET gap_top == iloc(df, fvg_index - 2).low
            gap_bottom == iloc(df, fvg_index).high
        IN  CmpMidpoint(At(df, Len(df) - 1).high, gap_bottom, gap_top) >= 0
    ELSE FALSE

\* df['high'].iloc[fvg_index - 2] wraps to the end of the series when
\* fvg_index < 2 (a negative position in pandas)
is_fvg_mitigated(df, fvg_index, fvg_type) ==
    IF fvg_index + 1 >= Len(df) THEN FALSE
    ELSE IF fvg_type = "BULLISH_FVG" THEN
        LET gap_top == iloc(df, fvg_index).low
            gap_bottom == iloc(df, fvg_index - 2).high
        \* (subsequent_lows <= midpoint).any()
        IN  \E m \in (fvg_index + 1)..(Len(df) - 1) :
                CmpMidpoint(At(df, m).low, gap_bottom, gap_top) <= 0
    ELSE IF fvg_type = "BEARISH_FVG" THEN
        LET gap_top == iloc(df, fvg_index - 2).low
            gap_bottom == iloc(df, fvg_index).high
        \* (subsequent_highs >= midpoint).any()
        IN  \E m \in (fvg_index + 1)..(Len(df) - 1) :
                CmpMidpoint(At(df, m).high, gap_bottom, gap_top) >= 0
    ELSE FALSE

NoInducement == [found |-> FALSE, level |-> NaN, swept |-> FALSE]

\* largest index of S (a non-empty set of integers)
MaxOf(S) == CHOOSE x \in S : \A y \in S : y <= x

\* sw is the result of detect_swing_points on df.  window = df.iloc[start_idx:
\* fvg_index]; the level is the last swing value in it, its index the last
\* window row carrying that value; df.loc[idx : fvg_index] includes both ends.
\* detect_inducement counting a bar that only touches the level as a sweep
detect_inducement_NotStrict(df, sw, fvg_index, fvg_type, lookback) ==
    IF fvg_index < lookback THEN NoInducement
    ELSE
        LET start_idx == Max2(0, fvg_index - lookback)
            window == start_idx..(fvg_index - 1)
            lows == {i \in window : At(sw.swing_low, i) # NaN}
            highs == {i \in window : At(sw.swing_high, i) # NaN}
        IN  IF fvg_type = "BULLISH_FVG" /\ lows # {} THEN
                LET internal_low == Val(At(sw.swing_low, MaxOf(lows)))
                    internal_low_idx ==
                        MaxOf({i \in lows : Val(At(sw.swing_low, i)) = internal_low})
                IN  [found |-> TRUE, level |-> {internal_low},
                     swept |-> \E m \in internal_low_idx..fvg_index :
                                   At(df, m).low <= internal_low]
            ELSE IF fvg_type = "BEARISH_FVG" /\ highs # {} THEN
                LET internal_high == Val(At(sw.swing_high, MaxOf(highs)))
                    internal_high_idx ==
                        MaxOf({i \in highs : Val(At(sw.swing_high, i)) = internal_high})
                IN  [found |-> TRUE, level |-> {internal_high},
                     swept |-> \E m \in internal_high_idx..fvg_index :
                                   At(df, m).high >= internal_high]
            ELSE NoInducement

detect_inducement(df, sw, fvg_index, fvg_type, lookback) ==
    IF fvg_index < lookback THEN NoInducement
    ELSE
        LET start_idx == Max2(0, fvg_index - lookback)
            window == start_idx..(fvg_index - 1)
            lows == {i \in window : At(sw.swing_low, i) # NaN}
            highs == {i \in window : At(sw.swing_high, i) # NaN}
        IN  IF fvg_type = "BULLISH_FVG" /\ lows # {} THEN
                LET internal_low == Val(At(sw.swing_low, MaxOf(lows)))
                    internal_low_idx ==
                        MaxOf({i \in lows : Val(At(sw.swing_low, i)) = internal_low})
                IN  [found |-> TRUE, level |-> {internal_low},
                     swept |-> \E m \in internal_low_idx..fvg_index :
                                   At(df, m).low < internal_low]
            ELSE IF fvg_type = "BEARISH_FVG" /\ highs # {} THEN
                LET internal_high == Val(At(sw.swing_high, MaxOf(highs)))
                    internal_high_idx ==
                        MaxOf({i \in highs : Val(At(sw.swing_high, i)) = internal_high})
                IN  [found |-> TRUE, level |-> {internal_high},
                     swept |-> \E m \in internal_high_idx..fvg_index :
                                   At(df, m).high > internal_high]
            ELSE NoInducement

NoSetup == [setup_type |-> "None"]

FvgDirection(fvg_type) == IF fvg_type = "BULLISH_FVG" THEN "BULLISH" ELSE "BEARISH"
SweepDirection(s) == IF s = "BULLISH_SWEEP" THEN "BULLISH" ELSE "BEARISH"
DispDirection(d) == IF d = "BULLISH_DISPLACEMENT" THEN "BULLISH" ELSE "BEARISH"

\* for j in range(max(0, i - 5), i): the first j whose entry is not None and
\* whose direction ('BULLISH' for 'BULLISH_SWEEP', 'BEARISH' for anything
\* else) is the FVG's; -1 when the loop ends without one
RECURSIVE FindSweepBar(_, _, _, _)
FindSweepBar(sweep_signals, fvg_type, j, i) ==
    IF j >= i THEN -1
    ELSE IF At(sweep_signals, j) # "None"
            /\ SweepDirection(At(sweep_signals, j)) = FvgDirection(fvg_type)
    THEN j
    ELSE FindSweepBar(sweep_signals, fvg_type, j + 1, i)

\* for k in range(sweep_bar, min(sweep_bar + 4, len(df))): some k whose entry
\* is not None and whose direction ('BULLISH' for 'BULLISH_DISPLACEMENT',
\* 'BEARISH' for anything else) is the FVG's
DisplacementFound(displacement_signals, fvg_type, sweep_bar, n) ==
    \E k \in sweep_bar..(Min2(sweep_bar + 4, n) - 1) :
        /\ At(displacement_signals, k) # "None"
        /\ DispDirection(At(displacement_signals, k)) = FvgDirection(fvg_type)

\* the body of get_smc_setup's loop, for i running down to lo + 1
RECURSIVE ScanSetup(_, _, _, _, _, _, _)
ScanSetup(df, sw, sweep_signals, displacement_signals, fvg, i, lo) ==
    IF i <= lo THEN NoSetup
    ELSE
        LET fvg_type == At(fvg, i).fvg_signal
            sweep_bar == FindSweepBar(sweep_signals, fvg_type,
                                      Max2(0, i - SWEEP_WINDOW), i)
            next == ScanSetup(df, sw, sweep_signals, displacement_signals, fvg,
                              i - 1, lo)
        IN  IF fvg_type = "None" THEN next
            ELSE IF is_fvg_mitigated(df, i, fvg_type) THEN next
            ELSE IF sweep_bar = -1 THEN next
            ELSE
                LET setup_type == FvgDirection(fvg_type) IN
                [setup_type |-> setup_type,
                 fvg_bar |-> i,
                 fvg_midpoint |-> Val(At(fvg, i).fvg_midpoint),
                 sweep_bar |-> sweep_bar,
                 sweep_level |-> IF setup_type = "BULLISH"
                                 THEN At(df, sweep_bar).low
                                 ELSE At(df, sweep_bar).high,
                 displacement_found |->
                     DisplacementFound(displacement_signals, fvg_type,
                                       sweep_bar, Len(df)),
                 inducement |->
                     detect_inducement(df, sw, i, fvg_type, INDUCEMENT_LOOKBACK),
                 entry_price |-> At(df, Len(df) - 1).close]

\* the scan bounded by recent_bars alone
ScanFloor_RecentOnly(n, sweep_lookback) == n - RECENT_BARS - 1

\* the first bar get_smc_setup's loop does not visit:
\* range(len(df) - 1, max(len(df) - recent_bars - 1, sweep_lookback), -1)
ScanFloor(n, sweep_lookback) == Max2(n - RECENT_BARS - 1, sweep_lookback)

get_smc_setup(df, sweep_lookback, level) ==
    IF Len(df) < sweep_lookback + 10 THEN NoSetup
    ELSE ScanSetup(df,
                   detect_swing_points(df, SWING_LOOKBACK),
                   detect_liquidity_sweep(df, sweep_lookback),
                   detect_displacement(df, level, ATR_PERIOD),
                   detect_fvg(df),
                   Len(df) - 1,
                   ScanFloor(Len(df), sweep_lookback))

-----------------------------------------------------------------------------
(* The SMC specification: a series grows bar by bar from a flat history    *)
(* and get_smc_setup is applied to every series                            *)

Flat == Bar(20, 22, 18, 20)
\* wick below the range, close back inside
SweepDown == Bar(20, 22, 14, 20)
SweepDown2 == Bar(20, 22, 10, 20)
\* wick above the range, close back inside
SweepUp == Bar(20, 26, 18, 20)
\* a bar gapping above the range
GapUp == Bar(28, 34, 28, 34)
\* a bar inside the gap left by GapUp
Inside == Bar(26, 26, 26, 26)
\* a bar gapping below the range
GapDown == Bar(12, 12, 6, 6)

BarShapes == {Flat, SweepDown, SweepDown2, SweepUp, GapUp, Inside, GapDown}

AtrLevels == {2, 8}

Prefix == [k \in 1..PrefixLen |-> Flat]

ArithIdle == [phase |-> "idle"]

\* get_ai_approval has not been called on its own
AiIdle == [phase |-> "idle"]

\* close_algorithm is not running
NoCloseRun == [pc |-> "idle"]

\* entry_algorithm is not running and has never run
EntryIdle ==
    /\ now = 0
    /\ account = [available |-> FALSE]
    /\ positions = {}
    /\ trades = {}
    /\ sent = << >>
    /\ cycle = [pc |-> "off"]
    /\ closing = NoCloseRun
    /\ last = [outcome |-> "off"]

InitSMC ==
    /\ bars = Prefix
    /\ atrv \in AtrLevels
    /\ setup = get_smc_setup(Prefix, SWEEP_LOOKBACK, atrv)
    /\ arith = ArithIdle
    /\ ai = AiIdle
    /\ EntryIdle

\* a new bar closes and the composer runs on the longer series
NewBar ==
    /\ Len(bars) < MaxBars
    /\ \E b \in BarShapes :
        /\ bars' = Append(bars, b)
        /\ setup' = get_smc_setup(bars', SWEEP_LOOKBACK, atrv)
    /\ UNCHANGED <<atrv, arith, ai, entryVars>>

NextSMC == NewBar

SpecSMC == InitSMC /\ [][NextSMC]_vars

-----------------------------------------------------------------------------
(* utils/arithmetics.py: the PnL <-> price conversions, in floats           *)

\* raise ValueError(...)
ValueError == [raised |-> TRUE]
\* a float division by zero raises ZeroDivisionError
ZeroDivisionError == [raised |-> TRUE]
\* return a, b
Return2(a, b) == [raised |-> FALSE, value |-> <<a, b>>]

\* returns (price_including_commission, price_excluding_commission);
\* leverage is accepted and not used
get_price_at_pnl(desired_pnl, entry_price, order_size_usd, leverage, type, commission) ==
    IF type \notin {"BUY", "SELL"} THEN ValueError
    ELSE IF order_size_usd.m = << >> THEN ZeroDivisionError
    ELSE IF type = "BUY" THEN
        Return2(FMul(entry_price,
                     FAdd(FOfInt(1), FDiv(FAdd(desired_pnl, commission), order_size_usd))),
                FMul(entry_price,
                     FAdd(FOfInt(1), FDiv(desired_pnl, order_size_usd))))
    ELSE
        Return2(FMul(entry_price,
                     FSub(FOfInt(1), FDiv(FAdd(desired_pnl, commission), order_size_usd))),
                FMul(entry_price,
                     FSub(FOfInt(1), FDiv(desired_pnl, order_size_usd))))

\* returns (pnl_including_commission, pnl_excluding_commission): the first is
\* order_size_usd * price_change, the second has the commission subtracted
get_pnl_at_price(current_price, entry_price, order_size_usd, leverage, type, commission) ==
    IF type \notin {"BUY", "SELL"} THEN ValueError
    ELSE IF entry_price.m = << >> THEN ZeroDivisionError
    ELSE
        LET price_change ==
                IF type = "BUY"
                THEN FDiv(FSub(current_price, entry_price), entry_price)
                ELSE FDiv(FSub(entry_price, current_price), entry_price)
            pnl_including_commission == FMul(order_size_usd, price_change)
            pnl_excluding_commission == FSub(pnl_including_commission, commission)
        IN  Return2(pnl_including_commission, pnl_excluding_commission)

\* The arithmetic specification: one of the two functions is called on the
\* chosen arguments, then the other on one of the two values it returned

EntryPrices == {50, 100}
OrderSizes == {1000, 2000}
Leverages == {1, 200}
Commissions == {0, 10}
TradeTypes == {"BUY", "SELL", "HOLD"}
\* a current price handed to get_pnl_at_price
PricesIn == {40, 100, 110}
\* a desired PnL handed to get_price_at_pnl
PnlsIn == {-20, 0, 50}

ArithArgs(phase, xs) ==
    [phase : {phase}, x : xs, entry_price : EntryPrices,
     order_size_usd : OrderSizes, leverage : Leverages, type : TradeTypes,
     commission : Commissions]

InitArith ==
    /\ bars = << >>
    /\ atrv \in AtrLevels
    /\ setup = NoSetup
    /\ arith \in ArithArgs("price_in", PricesIn) \cup ArithArgs("pnl_in", PnlsIn)
    /\ ai = AiIdle
    /\ EntryIdle

PnlOf(x) ==
    get_pnl_at_price(x, FOfInt(arith.entry_price), FOfInt(arith.order_size_usd),
                     FOfInt(arith.leverage), arith.type, FOfInt(arith.commission))

PriceOf(x) ==
    get_price_at_pnl(x, FOfInt(arith.entry_price), FOfInt(arith.order_size_usd),
                     FOfInt(arith.leverage), arith.type, FOfInt(arith.commission))

\* get_pnl_at_price(P, ...)
PnlAtPrice ==
    /\ arith.phase = "price_in"
    /\ arith' = [phase |-> "pnl_out", out |-> PnlOf(FOfInt(arith.x))] @@ arith
    /\ UNCHANGED <<smcVars, ai, entryVars>>

\* get_price_at_pnl(pnl, ...) on variant v of the PnL just returned, keeping
\* the same variant of the price
PriceAtPnlBack ==
    /\ arith.phase = "pnl_out"
    /\ ~arith.out.raised
    /\ \E v \in 1..2 :
        arith' = [phase |-> "price_back", variant |-> v,
                  back |-> PriceOf(arith.out.value[v]).value[v]] @@ arith
    /\ UNCHANGED <<smcVars, ai, entryVars>>

\* get_price_at_pnl(pnl, ...)
PriceAtPnl ==
    /\ arith.phase = "pnl_in"
    /\ arith' = [phase |-> "price_out", out |-> PriceOf(FOfInt(arith.x))] @@ arith
    /\ UNCHANGED <<smcVars, ai, entryVars>>

\* get_pnl_at_price(price, ...) on variant v of the price just returned,
\* keeping the same variant of the PnL
PnlAtPriceBack ==
    /\ arith.phase = "price_out"
    /\ ~arith.out.raised
    /\ \E v \in 1..2 :
        arith' = [phase |-> "pnl_back", variant |-> v,
                  back |-> PnlOf(arith.out.value[v]).value[v]] @@ arith
    /\ UNCHANGED <<smcVars, ai, entryVars>>

NextArith == PnlAtPrice \/ PriceAtPnlBack \/ PriceAtPnl \/ PnlAtPriceBack

SpecArith == InitArith /\ [][NextArith]_vars

\* C10: a price fed through get_pnl_at_price and back through
\* get_price_at_pnl, or a PnL fed through get_price_at_pnl and back through
\* get_pnl_at_price, comes back unchanged, for the commission-inclusive and
\* for the commission-exclusive variant.
C10_RoundTrip ==
    arith.phase \in {"price_back", "pnl_back"} => arith.back = FOfInt(arith.x)


-----------------------------------------------------------------------------
(* algorithms/mean_reversion/config.py and entry.py, utils/db/create.py,    *)
(* algorithms/close/close.py.  Money is counted in cents, lots in           *)
(* hundredths of a lot, time in whole hours UTC since a midnight, prices    *)
(* in half points (so point = 2)                                            *)

PAIRS == <<"EURUSDm", "GBPUSDm", "XAUUSDm", "BTCUSDm", "AUDUSDm">>

\* pair[:3] and pair[3:6]
base_curr(pair) ==
    CASE pair = "EURUSDm" -> "EUR" [] pair = "GBPUSDm" -> "GBP"
      [] pair = "XAUUSDm" -> "XAU" [] pair = "BTCUSDm" -> "BTC"
      [] pair = "AUDUSDm" -> "AUD"

quote_curr(pair) == "USD"

\* RISK_PERCENT_PER_TRADE = 1.5, in tenths of a percent
RISK_PERCENT_PER_TRADE_X10 == 15
SYMBOL_COOLDOWN_HOURS == 1
DAILY_DRAWDOWN_LIMIT_PERCENT == 5
SESSION_FILTER_ENABLED == TRUE
TRADING_SESSIONS == {[start_hour |-> 8, end_hour |-> 12], [start_hour |-> 13, end_hour |-> 17]}
\* Africa/Lagos is UTC+1 all year
WAT_OFFSET == 1
REJECT_NEUTRAL_BIAS == TRUE
\* MIN_LOT_SIZE = 0.01, in hundredths of a lot
MIN_LOT_SIZE_X100 == 1
MAX_RISK_PERCENT_OVERRIDE == 3
AI_ENABLED == TRUE
\* buffer = 20 * point, min_dist = max(50 * point, ...), tp_distance = price_distance * 3
BUFFER_POINTS == 20
MIN_DIST_POINTS == 50
REWARD_MULTIPLE == 3
\* margin_level < 500
MARGIN_LEVEL_FLOOR == 500
\* current_balance = ... if acc else 100, in cents
FALLBACK_BALANCE == 10000
HOURS_PER_DAY == 24

\* account_info() returned None
NoAccount == [available |-> FALSE]

\* --- get_ai_approval -------------------------------------------------------
\* a reply of the classifier is a sequence of characters

Upper(c) ==
    CASE c = "g" -> "G" [] c = "o" -> "O" [] c = "s" -> "S" [] c = "t" -> "T"
      [] c = "p" -> "P" [] c = "n" -> "N" [] OTHER -> c

upper(s) == [k \in 1..Len(s) |-> Upper(s[k])]

IsSpace(c) == c \in {" ", "\n", "\t"}

RECURSIVE lstrip(_)
lstrip(s) == IF s # << >> /\ IsSpace(Head(s)) THEN lstrip(Tail(s)) ELSE s

RECURSIVE rstrip(_)
rstrip(s) ==
    IF s # << >> /\ IsSpace(s[Len(s)]) THEN rstrip(SubSeq(s, 1, Len(s) - 1)) ELSE s

strip(s) == rstrip(lstrip(s))

\* sub in s
Contains(sub, s) ==
    \E k \in 0..(Len(s) - Len(sub)) : SubSeq(s, k + 1, k + Len(sub)) = sub

GO == <<"G", "O">>
STOP == <<"S", "T", "O", "P">>

\* response is what ai_client.models.generate_content did: it raised, or it
\* answered with response.text
get_ai_approval(response) ==
    IF ~AI_ENABLED THEN "GO"
    ELSE IF response.raised THEN "STOP"
    ELSE LET decision == upper(strip(response.text))
         IN  IF Contains(GO, decision) /\ ~Contains(STOP, decision)
             THEN "GO" ELSE "STOP"

\* --- check_drawdown_circuit_breaker ---------------------------------------

\* timezone.now().replace(hour=0, minute=0, second=0, microsecond=0)
today_start(t) == t - (t % HOURS_PER_DAY)

\* the rows Trade.objects.filter(close_time__gte=today_start, pnl__lt=0) selects
losing_rows(table, t) ==
    {r \in table : r.closed /\ r.close_time >= today_start(t) /\ r.pnl < 0}

\* the exact sum of the pnl of the rows, in cents
RECURSIVE SumPnl(_)
SumPnl(rows) ==
    IF rows = {} THEN 0
    ELSE LET r == CHOOSE x \in rows : TRUE IN r.pnl + SumPnl(rows \ {r})

\* the exact value of today's losses, in cents
daily_losses(table, t) == SumPnl(losing_rows(table, t))

\* the float of an amount given in cents: the float nearest to its decimal
MoneyFloat(cents) == FOfRatio(cents, 100)

\* .aggregate(total_loss=Sum('pnl'))['total_loss'] or 0: the pnl column
\* holds floats and the database adds them one after the other in an order
\* of its own, so the total is one of the sums the orders of the rows give
RECURSIVE SumPnlFloat(_, _)
SumPnlFloat(rows, total) ==
    IF rows = {} THEN {total}
    ELSE UNION {SumPnlFloat(rows \ {r}, FAdd(total, MoneyFloat(r.pnl))) : r \in rows}

\* (daily_loss_amount / current_balance) * 100 >= DAILY_DRAWDOWN_LIMIT_PERCENT
\* for current_balance > 0 and daily_loss_amount = abs(total_loss).  A float
\* sum differs from the exact total by less than a cent, so off the limit
\* the cents decide; on a loss of exactly the limit the floats do, for every
\* total the database may have returned
LossAtLimit(rows, current_balance) ==
    IF 100 * Abs(SumPnl(rows)) # DAILY_DRAWDOWN_LIMIT_PERCENT * current_balance
    THEN {100 * Abs(SumPnl(rows)) > DAILY_DRAWDOWN_LIMIT_PERCENT * current_balance}
    ELSE {FCmp(FMul(FDiv(FAbs(total_loss), MoneyFloat(current_balance)), FOfInt(100)),
               FOfInt(DAILY_DRAWDOWN_LIMIT_PERCENT)) >= 0 :
            total_loss \in SumPnlFloat(rows, FZero)}

\* acc is what account_info() returned, db_ok whether the ledger query went
\* through (a raised error is caught and answers False); the answers the
\* call may give
check_drawdown_circuit_breaker(acc, table, t, db_ok) ==
    IF ~acc.available THEN {FALSE}
    ELSE IF ~db_ok THEN {FALSE}
    ELSE IF acc.balance > 0
    THEN LossAtLimit(losing_rows(table, t), acc.balance)
    ELSE {0 >= DAILY_DRAWDOWN_LIMIT_PERCENT}

\* --- is_trading_session_active ----------------------------------------------

is_trading_session_active(t) ==
    IF ~SESSION_FILTER_ENABLED THEN TRUE
    ELSE LET current_hour == (t + WAT_OFFSET) % HOURS_PER_DAY
         IN  \E session \in TRADING_SESSIONS :
                session.start_hour <= current_hour /\ current_hour < session.end_hour

\* --- the guards and the sizing of entry_algorithm ---------------------------

\* last_trade and last_trade.entry_time and last_trade.entry_time > cooldown_cutoff
CooldownActive(table, pair, t) ==
    LET rows == {r \in table : r.symbol = pair}
    IN  /\ rows # {}
        /\ LET last_trade == CHOOSE r \in rows : \A x \in rows : x.entry_time <= r.entry_time
           IN  last_trade.entry_time > t - SYMBOL_COOLDOWN_HOURS

\* acc is not None and acc.get('margin', 0) > 0 and acc.get('margin_level', 9999) < 500
MarginTooLow(acc) ==
    acc.available /\ acc.margin > 0 /\ acc.margin_level < MARGIN_LEVEL_FLOOR

\* the currencies of the open positions, as collected once before the loop
ExposedCurrencies(all_positions) ==
    IF ~all_positions.available THEN {}
    ELSE UNION {{base_curr(p.symbol), quote_curr(p.symbol)} : p \in all_positions.rows}

\* setup.get('fvg_midpoint', 0): the float detect_fvg stored for the FVG bar
\* of the setup smc composed on the series df
FvgMidpointFloat(df, smc) ==
    LET f == At(detect_fvg(df), smc.fvg_bar)
    IN  MidpointFloat(Val(f.fvg_bottom), Val(f.fvg_top))

\* round(x, ndigits) of a numpy.float64, p being 10^ndigits: the float product
\* x * p is rounded to the whole number nearest to it, a tie going to the even
\* one, and divided by p; the result is that whole number of p-ths
NumpyRoundTimes(x, p) == FRoundTimes(FMul(x, FOfInt(p)), 1)

\* fvg_midpoint = round(fvg_midpoint_raw, 5); setup_id = f"{pair}_{fvg_midpoint}"
\* the midpoint is the numpy.float64 read from the fvg_midpoint column; the
\* rounded float prints its 5 decimals, here counted in points
SetupId(pair, fvg_midpoint_raw) == <<pair, NumpyRoundTimes(fvg_midpoint_raw, 100000)>>

\* bias_confirms_signal confirming every signal
bias_confirms_signal_Always(bias, signal_type) ==
    TRUE

bias_confirms_signal(bias, signal_type) ==
    IF bias = "NEUTRAL" THEN TRUE
    ELSE IF bias = "LONG_ONLY" /\ signal_type = "BULLISH" THEN TRUE
    ELSE IF bias = "SHORT_ONLY" /\ signal_type = "BEARISH" THEN TRUE
    ELSE FALSE

sl_price(order_type, structure_sl, point) ==
    IF order_type = "SELL" THEN structure_sl + BUFFER_POINTS * point
    ELSE structure_sl - BUFFER_POINTS * point

min_dist(tick) == Max2(MIN_DIST_POINTS * tick.point, (tick.ask - tick.bid) * 2)

\* The code computes in binary floats and the model in exact units. Off a tie
\* the two agree. On an exact tie (a quotient half way between two roundings,
\* two sides of a comparison equal) the float lies a last bit to one side or
\* the other, a bit the exact units do not carry: the operators below give
\* the set of the results the float computation can have.

\* round() of the float of n / d (d > 0) to a whole number
RoundFloat(n, d) ==
    LET q == n \div d
        r == n % d
    IN  IF 2 * r < d THEN {q}
        ELSE IF 2 * r > d THEN {q + 1}
        ELSE {q, q + 1}

\* a < b on the floats of a and b
LessFloat(a, b) == IF a = b THEN BOOLEAN ELSE {a < b}

\* price_distance < min_dist
StopTooTight(price_distance, tick) == LessFloat(price_distance, min_dist(tick))

\* order_volume_lots cutting the lot size down to whole hundredths
order_volume_lots_Truncated(current_balance, price_distance, contract_size) ==
    LET n == current_balance * RISK_PERCENT_PER_TRADE_X10
        d == 10 * price_distance * contract_size
    IN  IF n < MIN_LOT_SIZE_X100 * d THEN {MIN_LOT_SIZE_X100}
        ELSE {n \div d}

\* round(max(MIN_LOT_SIZE, risk_amount_usd / (price_distance * contract_size)), 2)
\* in hundredths of a lot: the values the float rounding can give; the caller
\* has price_distance * contract_size > 0
order_volume_lots(current_balance, price_distance, contract_size) ==
    LET n == current_balance * RISK_PERCENT_PER_TRADE_X10
        d == 10 * price_distance * contract_size
    IN  IF n < MIN_LOT_SIZE_X100 * d THEN {MIN_LOT_SIZE_X100}
        ELSE RoundFloat(n, d)

\* actual_risk_percent > MAX_RISK_PERCENT_OVERRIDE, where actual_risk_percent
\* is 0 when current_balance is not positive: the answers the float
\* comparison can give
RiskAboveOverride(lots, price_distance, contract_size, current_balance) ==
    IF current_balance > 0
    THEN LessFloat(MAX_RISK_PERCENT_OVERRIDE * current_balance,
                   lots * price_distance * contract_size)
    ELSE {0 > MAX_RISK_PERCENT_OVERRIDE}

tp_price(order_type, last_tick_price, price_distance) ==
    IF order_type = "BUY" THEN last_tick_price + price_distance * REWARD_MULTIPLE
    ELSE last_tick_price - price_distance * REWARD_MULTIPLE

\* 10^-decimals in price units, for decimals up to the five of a point
DecimalStep(decimals) == UNITS_PER_POINT * 10 ^ (5 - decimals)

\* len(str(last_tick_price).split('.')[-1]): the digits the quote prints after
\* the decimal point, which is one for a whole number ("1.0") and six for a
\* price on a half point
price_decimals(last_tick_price) ==
    IF \E d \in 1..5 : last_tick_price % DecimalStep(d) = 0
    THEN CHOOSE d \in 1..5 :
            /\ last_tick_price % DecimalStep(d) = 0
            /\ \A e \in 1..(d - 1) : last_tick_price % DecimalStep(e) # 0
    ELSE 6

\* round(price, decimals) as passed to send_market_order: the prices the
\* float rounding can give
round_price(price, decimals) ==
    IF decimals > 5 THEN {price}
    ELSE {DecimalStep(decimals) * k : k \in RoundFloat(price, DecimalStep(decimals))}

\* --- the collaborators' answers --------------------------------------------

\* bars of the indicator alphabet, SCALE times taller and lifted to a quote
\* of 1.00000 (BASE_PRICE units)
SCALE == 10
BASE_PRICE == 200000

ScaleBar(b, k) ==
    Bar(BASE_PRICE + b.open * k, BASE_PRICE + b.high * k,
        BASE_PRICE + b.low * k, BASE_PRICE + b.close * k)
Scale(df, k) == [i \in 1..Len(df) |-> ScaleBar(df[i], k)]

\* fetch_data_pos(pair, MAIN_TIMEFRAME, 30): 30 M15 bars
M15Series ==
    [quiet |-> Scale(Prefix \o <<Flat, Flat, Flat, Flat, Flat>>, SCALE),
     bull  |-> Scale(Prefix \o <<SweepDown2, SweepUp, Inside, Inside, Inside>>, SCALE),
     bear  |-> Scale(SubSeq(Prefix, 1, PrefixLen - 1)
                     \o <<SweepDown, GapDown, GapDown, SweepDown, SweepUp, GapDown>>,
                     SCALE),
     \* a sweep and a gap with no swing low in the bars before the gap
     unswept |-> Scale(Prefix \o <<SweepDown2, Flat, Flat, Flat, GapUp>>, SCALE)]

SeriesNames == {"quiet", "bull", "bear", "unswept"}

\* the series each pair's market may show: a setup forms on two of the pairs
SeriesOf(pair) ==
    CASE pair = "EURUSDm" -> {"quiet", "bull", "unswept"}
      [] pair = "GBPUSDm" -> {"quiet", "bear"}
      [] OTHER -> {"quiet"}

\* what fetch_data_pos answers: None, an empty frame, or one of the series
DataAnswers(pair) ==
    {[kind |-> "None"], [kind |-> "empty"]} \cup [kind : {"bars"}, name : SeriesOf(pair)]

\* get_smc_setup(df, sweep_lookback=20, displacement_threshold=1.5) of each series
M15Setups ==
    [level \in AtrLevels |->
        [n \in SeriesNames |-> get_smc_setup(M15Series[n], SWEEP_LOOKBACK, level * SCALE)]]

\* what symbol_info_tick answers: None, an empty frame, or a quote
NoTick == [kind |-> "None"]
EmptyTick == [kind |-> "empty"]
Quote(bid, ask) ==
    [kind |-> "quote", bid |-> BASE_PRICE + bid, ask |-> BASE_PRICE + ask,
     point |-> UNITS_PER_POINT, trade_contract_size |-> 50]
\* the quotes each pair's market may show: one of five printed decimals, and
\* one of fewer decimals near the round price
TickAnswers(pair) ==
    {NoTick, EmptyTick} \cup
    (IF pair = "EURUSDm" THEN {Quote(268, 270), Quote(-470, -400)}
     ELSE {Quote(150, 152), Quote(0, 70)})

\* what get_market_bias answers
Biases == {"LONG_ONLY", "SHORT_ONLY", "NEUTRAL"}

\* what the classifier answers: it raises, or replies with a text
AiAnswers ==
    {[raised |-> TRUE]} \cup
    [raised : {FALSE},
     text : {<<"G", "O">>, <<" ", "g", "o", "\n">>, <<"S", "T", "O", "P">>,
             <<"N", "O", " ", "G", "O">>, <<"G", "O", " ", "S", "T", "O", "P">>}]

\* account_info() of the broker account
Accounts ==
    {[available |-> TRUE, balance |-> 13000, margin |-> 0, margin_level |-> 9999],
     [available |-> TRUE, balance |-> 2000, margin |-> 0, margin_level |-> 9999],
     [available |-> TRUE, balance |-> 0, margin |-> 0, margin_level |-> 9999],
     [available |-> TRUE, balance |-> 13000, margin |-> 500, margin_level |-> 400]}

\* the profit of a closed deal
Profits == {-1000, 400}

\* the hours (UTC) at which something happens: 10:00 (11:00 WAT, London
\* session), 11:00 (12:00 WAT, between the sessions, and SYMBOL_COOLDOWN_HOURS
\* after 10:00), and 10:00 of the next day
ClockTicks == {10, 11, 34}

MaxOrders == 2

\* timezone.now() read again after it read t: the same hour or a later one
timezone_now(t) == {u \in ClockTicks \cup {t} : u >= t}

\* --- entry_algorithm ---------------------------------------------------------

\* the classifier was not asked
NoResponse == "unasked"

\* a step that asked neither for data nor for a quote nor the classifier
Did(pair, outcome) ==
    [df |-> "unasked", tick |-> "unasked", bid |-> 0, ask |-> 0,
     decision |-> "unasked"]

\* symbol_info_tick was not called
Unasked == [kind |-> "unasked"]

\* the ATR level of the M15 series
M15_ATR == 8

Init ==
    /\ bars = << >>
    /\ atrv = M15_ATR
    /\ setup = NoSetup
    /\ arith = ArithIdle
    /\ ai = AiIdle
    /\ now = 10
    /\ account \in Accounts
    /\ positions = {}
    /\ trades = {}
    /\ sent = << >>
    /\ cycle = [pc |-> "idle"]
    /\ closing = NoCloseRun
    /\ last = Did("-", "none")

\* account_info(): None when the provider is unavailable
account_info(ok) == IF ok THEN account ELSE NoAccount

\* get_positions(): None when the provider is unavailable
get_positions(ok) == [available |-> ok, rows |-> positions]

\* have_open_positions_in_symbol(pair)
have_open_positions_in_symbol(pair) == \E p \in positions : p.symbol = pair

\* entry_algorithm returns before the loop
Return(outcome) ==
    /\ cycle' = [pc |-> "idle"]
    /\ last' = Did("-", outcome)

\* entry_algorithm from its first line to the head of the loop over PAIRS
StartCycle ==
    /\ cycle.pc = "idle"
    /\ \E breaker_acc_ok \in BOOLEAN, db_ok \in BOOLEAN :
      \E halted \in check_drawdown_circuit_breaker(account_info(breaker_acc_ok),
                                                   trades, now, db_ok) :
        IF halted
        THEN Return("circuit_breaker") /\ now' = now
        \* the session filter reads the clock after the breaker did
        ELSE \E t \in timezone_now(now) :
          /\ now' = t
          /\ IF ~is_trading_session_active(t)
             THEN Return("outside_session")
             ELSE \E pos_ok \in BOOLEAN, acc_ok \in BOOLEAN :
                LET all_positions == get_positions(pos_ok)
                    acc == account_info(acc_ok)
                IN  /\ cycle' = [pc |-> "scan", idx |-> 1,
                                 acc |-> acc,
                                 current_balance |->
                                     IF acc.available THEN acc.balance ELSE FALLBACK_BALANCE,
                                 exposed_currencies |-> ExposedCurrencies(all_positions)]
                    /\ last' = Did("-", "started")
    /\ UNCHANGED <<smcVars, arith, ai, account, positions, trades, sent, closing>>

\* what a pass met: the data and the quote it was answered and the decision
\* of the classifier
Met(df, tick, response) ==
    [df |-> df, tick |-> tick.kind,
     bid |-> IF tick.kind = "quote" THEN tick.bid ELSE 0,
     ask |-> IF tick.kind = "quote" THEN tick.ask ELSE 0,
     decision |-> response]

\* the end of one pass of the loop body: on to the next pair, or out of the
\* function after the last pair or when an error was raised (the except
\* clause that encloses the loop)
Step(pair, outcome, df, tick, response, raised) ==
    /\ last' = Met(df, tick, response)
    /\ cycle' = IF raised \/ cycle.idx = Len(PAIRS)
                THEN [pc |-> "idle"]
                ELSE [cycle EXCEPT !.idx = @ + 1]

\* continue
Skip(pair, outcome, df, tick, response) ==
    /\ Step(pair, outcome, df, tick, response, FALSE)
    /\ UNCHANGED <<sent, positions, trades, now>>

\* an error leaves the loop
Raise(pair, outcome, df, tick, response) ==
    /\ Step(pair, outcome, df, tick, response, TRUE)
    /\ UNCHANGED <<sent, positions, trades, now>>

\* df is None or df.empty
DataUnavailable(df) == df.kind = "None" \/ df.kind = "empty"

\* tick_info is None or tick_info.empty
TickUnavailable(tick_info) == tick_info.kind = "None" \/ tick_info.kind = "empty"

\* create_trade: the row is written unless the ledger fails, in which case
\* the error is logged and nothing is stored
create_trade(table, ticket, symbol, setup_id, t, ledger_ok) ==
    IF ledger_ok
    THEN table \cup {[ticket |-> ticket, symbol |-> symbol, setup_id |-> setup_id,
                      entry_time |-> t, closed |-> FALSE, close_time |-> 0, pnl |-> 0]}
    ELSE table

\* get_smc_setup(df, ...) of what fetch_data_pos answered
SetupOf(df) ==
    IF df.kind = "bars" THEN M15Setups[atrv][df.name]
    ELSE get_smc_setup(<< >>, SWEEP_LOOKBACK, atrv * SCALE)

\* the setup_id entry_algorithm forms for `pair` from the setup of each series
SetupIdFor(pair, df, smc) ==
    IF smc = NoSetup THEN <<pair, 0>> ELSE SetupId(pair, FvgMidpointFloat(df, smc))
M15SetupIds ==
    [level \in AtrLevels |->
        [n \in SeriesNames |->
            [pair \in {PAIRS[i] : i \in 1..Len(PAIRS)} |->
                SetupIdFor(pair, M15Series[n], M15Setups[level][n])]]]

\* setup_id of the setup found in what fetch_data_pos answered
SetupIdOf(pair, df) == M15SetupIds[atrv][df.name][pair]

\* send_market_order: the order goes to the sink.  When the sink accepts it
\* (order is not None) the position is open at the broker, and the
\* notification and create_trade are still to come; when it does not, the
\* pass is over.  The runs explored send no more than MaxOrders orders
Submit(pair, df, tick_info, response, order) ==
    /\ Len(sent) < MaxOrders
    /\ \E accepted \in BOOLEAN :
        /\ sent' = Append(sent, [order EXCEPT !.accepted = accepted])
        /\ IF accepted
           THEN /\ positions' = positions \cup {[ticket |-> Len(sent) + 1, symbol |-> pair]}
                /\ last' = Met(df.kind, tick_info, response)
                /\ cycle' = [cycle EXCEPT !.pc = "ledger"]
           ELSE /\ positions' = positions
                /\ Step(pair, "order_sent", df.kind, tick_info, response, FALSE)
    /\ UNCHANGED <<trades, now>>

\* the loop body from the live quote on (entry.py from "Step 5")
SizeAndSend(pair, htf_bias, df, smc, tick_info) ==
    IF TickUnavailable(tick_info) THEN Skip(pair, "no_tick", df.kind, tick_info, NoResponse)
    \* tick_info['ask'].iloc[0] of a frame without rows
    ELSE IF tick_info.kind # "quote"
    THEN Raise(pair, "raised", df.kind, tick_info, NoResponse)
    ELSE
        LET order_type == IF smc.setup_type = "BULLISH" THEN "BUY" ELSE "SELL"
            last_tick_price == IF order_type = "BUY" THEN tick_info.ask ELSE tick_info.bid
            point == tick_info.point
            contract_size == tick_info.trade_contract_size
            sl == sl_price(order_type, smc.sweep_level, point)
            price_distance == Abs(last_tick_price - sl)
        IN  \E too_tight \in StopTooTight(price_distance, tick_info) :
            IF too_tight
            THEN Skip(pair, "stop_too_tight", df.kind, tick_info, NoResponse)
            ELSE \E response \in AiAnswers :
                IF get_ai_approval(response) # "GO"
                THEN Skip(pair, "ai_stop", df.kind, tick_info, get_ai_approval(response))
                \* risk_amount_usd / (price_distance * contract_size)
                ELSE IF price_distance * contract_size = 0
                THEN Raise(pair, "raised", df.kind, tick_info, get_ai_approval(response))
                ELSE
                    \E lots \in order_volume_lots(cycle.current_balance,
                                                  price_distance, contract_size),
                       sl_sent \in round_price(sl, price_decimals(last_tick_price)),
                       tp_sent \in round_price(
                                     tp_price(order_type, last_tick_price, price_distance),
                                     price_decimals(last_tick_price)) :
                      \E risk_above \in RiskAboveOverride(lots, price_distance,
                                        contract_size, cycle.current_balance) :
                        IF risk_above
                        THEN Skip(pair, "risk_above_override", df.kind, tick_info,
                                  get_ai_approval(response))
                        ELSE Submit(pair, df, tick_info, get_ai_approval(response),
                                [symbol |-> pair,
                                 setup_id |-> SetupIdOf(pair, df),
                                 order_type |-> order_type, volume |-> lots,
                                 price |-> last_tick_price,
                                 sl |-> sl_sent,
                                 tp |-> tp_sent,
                                 price_distance |-> price_distance,
                                 contract_size |-> contract_size,
                                 htf_bias |-> htf_bias,
                                 sweep_level |-> smc.sweep_level,
                                 bid |-> tick_info.bid, ask |-> tick_info.ask,
                                 point |-> point,
                                 decision |-> get_ai_approval(response),
                                 accepted |-> FALSE])

\* the gate lets every setup through
inducement_swept_Always(smc) == TRUE

\* setup.get('inducement', {}).get('swept')
inducement_swept(smc) == smc.inducement.swept

\* the loop body from the setup found to the bias confirmation
GateAndSend(pair, htf_bias, df, smc) ==
    IF smc = NoSetup THEN Skip(pair, "no_setup", df.kind, Unasked, NoResponse)
    ELSE \E exists_ok \in BOOLEAN :
        \* Trade.objects.filter(setup_id=setup_id).exists() with the
        \* ledger unreachable
        IF ~exists_ok THEN Raise(pair, "raised", df.kind, Unasked, NoResponse)
        ELSE IF \E r \in trades :
                    r.setup_id = SetupIdOf(pair, df)
        THEN Skip(pair, "already_traded", df.kind, Unasked, NoResponse)
        ELSE IF ~inducement_swept(smc)
        THEN Skip(pair, "no_inducement", df.kind, Unasked, NoResponse)
        ELSE IF ~bias_confirms_signal(htf_bias, smc.setup_type)
        THEN Skip(pair, "bias_conflict", df.kind, Unasked, NoResponse)
        ELSE \E tick_info \in TickAnswers(pair) : SizeAndSend(pair, htf_bias, df, smc, tick_info)

\* the loop body from the M15 data on
DetectAndSend(pair, htf_bias) ==
    \E df \in DataAnswers(pair) :
        IF DataUnavailable(df) THEN Skip(pair, "no_data", df.kind, Unasked, NoResponse)
        ELSE GateAndSend(pair, htf_bias, df, SetupOf(df))

\* one pass of the body of "for pair in PAIRS"
ScanPair ==
    /\ cycle.pc = "scan"
    /\ LET pair == PAIRS[cycle.idx]
       IN  IF have_open_positions_in_symbol(pair)
           THEN Skip(pair, "open_position", "unasked", Unasked, NoResponse)
           ELSE \E market_open \in BOOLEAN, db_ok \in BOOLEAN :
               IF ~market_open THEN Skip(pair, "market_closed", "unasked", Unasked, NoResponse)
               \* Trade.objects.filter(symbol=pair) with the ledger unreachable
               ELSE IF ~db_ok THEN Raise(pair, "raised", "unasked", Unasked, NoResponse)
               ELSE IF CooldownActive(trades, pair, now)
               THEN Skip(pair, "cooldown", "unasked", Unasked, NoResponse)
               ELSE IF MarginTooLow(cycle.acc)
               THEN Skip(pair, "margin_level", "unasked", Unasked, NoResponse)
               ELSE IF base_curr(pair) \in cycle.exposed_currencies
                       \/ quote_curr(pair) \in cycle.exposed_currencies
               THEN Skip(pair, "exposure", "unasked", Unasked, NoResponse)
               ELSE \E htf_bias \in Biases :
                   IF REJECT_NEUTRAL_BIAS /\ htf_bias = "NEUTRAL"
                   THEN Skip(pair, "neutral_bias", "unasked", Unasked, NoResponse)
                   ELSE DetectAndSend(pair, htf_bias)
    /\ UNCHANGED <<smcVars, arith, ai, account, closing>>

\* the rest of the pass after an accepted order: the notification goes out
\* and create_trade writes the row of the trade with the time it then reads,
\* or logs the error of a ledger that fails; the broker and the clock may
\* have moved since the order was sent
RecordTrade ==
    /\ cycle.pc = "ledger"
    /\ \E ledger_ok \in BOOLEAN :
        trades' = create_trade(trades, Len(sent), PAIRS[cycle.idx],
                               sent[Len(sent)].setup_id, now, ledger_ok)
    /\ cycle' = IF cycle.idx = Len(PAIRS)
                THEN [pc |-> "idle"]
                ELSE [cycle EXCEPT !.pc = "scan", !.idx = @ + 1]
    /\ last' = Did("-", "recorded")
    /\ UNCHANGED <<smcVars, arith, ai, now, account, positions, sent, closing>>

\* --- the broker and close_algorithm ------------------------------------------

\* the broker closes a position (stop loss, take profit), between two runs
\* of entry_algorithm or during one
BrokerClose ==
    /\ \E p \in positions : positions' = positions \ {p}
    /\ last' = Did("-", "broker_close")
    /\ UNCHANGED <<smcVars, arith, ai, now, account, trades, sent, cycle, closing>>

\* close_trade(ticket, close_time, close_price, pnl, ...) on the row of a trade
close_trade(r, deal) ==
    [r EXCEPT !.closed = TRUE, !.close_time = deal.time,
              !.pnl = deal.profit + deal.commission + deal.swap]

\* the tickets the terminal reports open (close.py:40-44): none when the
\* provider failed or answered an empty frame
Mt5OpenTickets(all_positions) ==
    IF all_positions.available THEN {p.ticket : p \in all_positions.rows} ELSE {}

\* get_deal_from_ticket is no part of the repository and the specification
\* does not say which deal it picks for a ticket: it may return None, raise,
\* or return a deal of the ticket, be it the deal that closed the position,
\* the deal of a partial close or the deal that opened it.  A deal carries a
\* time not after the present, a profit, a commission and a swap
NoDeal == [kind |-> "None"]
LookupRaised == [kind |-> "raise"]
FoundDeal(d) == [kind |-> "deal", deal |-> d]
DealsUpTo(t) ==
    [time : {u \in ClockTicks : u <= t}, profit : Profits, commission : {0}, swap : {0}]
DealAnswers(ticket, t) ==
    {NoDeal, LookupRaised} \cup {FoundDeal(d) : d \in DealsUpTo(t)}

\* the body of "for trade in db_open_trades" for the row of one trade:
\* closed_deal is what get_deal_from_ticket gave, stored whether close_trade
\* wrote the row (it did not when it raised or returned nothing)
SyncTrade(r, mt5_open_tickets, closed_deal, stored) ==
    IF r.closed THEN r
    ELSE IF r.ticket \in mt5_open_tickets THEN r
    \* except Exception as inner_e: logged, on to the next trade
    ELSE IF closed_deal.kind = "raise" THEN r
    \* if closed_deal is None: continue
    ELSE IF closed_deal.kind = "None" THEN r
    ELSE IF ~stored THEN r
    ELSE close_trade(r, closed_deal.deal)

\* the rows the ledger holds open: Trade.objects.filter(close_time__isnull=True)
db_open_trades == {r \in trades : ~r.closed}

\* the ledger after one pass of the loop over db_open_trades, given what
\* get_deal_from_ticket answered for each open row and whether close_trade
\* stored it
SyncAll(mt5_open_tickets, closed_deal, stored) ==
    {IF r.closed THEN r
     ELSE SyncTrade(r, mt5_open_tickets, closed_deal[r.ticket], stored[r.ticket]) :
        r \in trades}

\* what get_deal_from_ticket may answer for the open rows, row by row
DealAnswersOfOpen ==
    {f \in [{r.ticket : r \in db_open_trades} ->
                UNION {DealAnswers(r.ticket, now) : r \in db_open_trades}] :
        \A t \in DOMAIN f : f[t] \in DealAnswers(t, now)}

\* close_algorithm: every trade open in the table and not among the open
\* positions is looked up in the deal history and, when found, closed; the
\* positions provider, the read of the open rows, each lookup and each write
\* may fail.  Here a run is one step taken between two calls of
\* entry_algorithm; the close specification takes it read by read, with the
\* other steps falling between
close_algorithm ==
    /\ cycle.pc = "idle"
    /\ \E pos_ok \in BOOLEAN, db_ok \in BOOLEAN :
        LET mt5_open_tickets == Mt5OpenTickets(get_positions(pos_ok))
        IN  IF ~db_ok
            \* the read of the open rows raises: the outer handler logs it
            THEN trades' = trades
            ELSE \E closed_deal \in DealAnswersOfOpen,
                    stored \in [{r.ticket : r \in db_open_trades} -> BOOLEAN] :
                trades' = SyncAll(mt5_open_tickets, closed_deal, stored)
    /\ last' = Did("-", "close_algorithm")
    /\ UNCHANGED <<smcVars, arith, ai, now, account, positions, sent, cycle, closing>>

\* time passes, between two runs or within one
AdvanceClock ==
    /\ \E t \in ClockTicks : t > now /\ now' = t
    /\ last' = Did("-", "clock")
    /\ UNCHANGED <<smcVars, arith, ai, account, positions, trades, sent, cycle, closing>>

Next ==
    StartCycle \/ ScanPair \/ RecordTrade \/ BrokerClose \/ close_algorithm \/ AdvanceClock

Spec == Init /\ [][Next]_vars

\* --- entry_algorithm: the claims -------------------------------------------

\* the order that a step hands to the order sink
NewOrder == sent'[Len(sent')]

\* a step of the loop over PAIRS: the pass over the pair in hand
ScanStep == cycle.pc = "scan" /\ cycle' # cycle

\* the step that ends the pass over the pair in hand: a step of the loop that
\* leaves no ledger write pending, or the ledger write
PassEnds == cycle.pc \in {"scan", "ledger"} /\ cycle' # cycle /\ cycle'.pc # "ledger"

\* the pass over one pair is followed by the pass over the next pair
Continues == cycle.idx < Len(PAIRS) => (cycle'.pc = "scan" /\ cycle'.idx = cycle.idx + 1)

\* C1: an order whose final lot size (after the MIN_LOT_SIZE floor and the
\* rounding) puts more than MAX_RISK_PERCENT_OVERRIDE percent of the account
\* balance at risk is never handed to the order sink.
C1_SizingCeiling ==
    [][sent' # sent =>
        ~(NewOrder.volume * NewOrder.price_distance * NewOrder.contract_size
              > MAX_RISK_PERCENT_OVERRIDE * cycle.current_balance)]_vars

\* C4: within one run of entry_algorithm, whatever happens in the pass over
\* one pair (an error raised by a collaborator or by a step included), the
\* pass over the next pair of PAIRS follows.
C4_PerSymbolIsolation ==
    [][PassEnds => Continues]_vars

\* C5: when fetch_data_pos or symbol_info_tick answers None or empty for a
\* pair, no order is submitted for it and the loop goes on to the next pair;
\* when account_info answered None for the cycle, no order is submitted.
C5_UnavailableMeansSkip ==
    [][ScanStep =>
        /\ (last'.df \in {"None", "empty"} \/ last'.tick \in {"None", "empty"})
               => (sent' = sent /\ Continues)
        /\ ~cycle.acc.available => sent' = sent]_vars

\* C7: once the order sink has accepted an order for a fingerprint, no later
\* order carries the same fingerprint.
C7_NoReentry ==
    \A i \in 1..Len(sent) : \A j \in 1..Len(sent) :
        (i < j /\ sent[i].accepted) => sent[j].setup_id # sent[i].setup_id

\* C8: no order is submitted while the losses of the trades closed since
\* today's midnight amount to DAILY_DRAWDOWN_LIMIT_PERCENT of the balance or
\* more.
C8_DrawdownBreaker ==
    [][sent' # sent =>
        LET daily_loss_amount == Abs(daily_losses(trades, now))
        IN  ~(daily_loss_amount > 0
              /\ 100 * daily_loss_amount >= DAILY_DRAWDOWN_LIMIT_PERCENT * account.balance)]_vars

\* the pairs (bias, signal) that bias_confirms_signal confirms
Confirmed ==
    {<<"NEUTRAL", "BULLISH">>, <<"NEUTRAL", "BEARISH">>,
     <<"LONG_ONLY", "BULLISH">>, <<"SHORT_ONLY", "BEARISH">>}

\* C15: bias_confirms_signal is true exactly for (NEUTRAL, any direction),
\* (LONG_ONLY, BULLISH) and (SHORT_ONLY, BEARISH), and no BUY is ever sent
\* under a SHORT_ONLY bias nor a SELL under a LONG_ONLY bias.
C15_BiasConfirmation ==
    /\ \A bias \in Biases, signal_type \in {"BULLISH", "BEARISH"} :
        bias_confirms_signal(bias, signal_type) <=> <<bias, signal_type>> \in Confirmed
    /\ \A i \in 1..Len(sent) :
        /\ ~(sent[i].order_type = "BUY" /\ sent[i].htf_bias = "SHORT_ONLY")
        /\ ~(sent[i].order_type = "SELL" /\ sent[i].htf_bias = "LONG_ONLY")

\* a BUY sent under LONG_ONLY and a SELL sent under SHORT_ONLY
C15_Witness ==
    /\ \E i \in 1..Len(sent) :
        sent[i].order_type = "BUY" /\ sent[i].htf_bias = "LONG_ONLY"
    /\ \E i \in 1..Len(sent) :
        sent[i].order_type = "SELL" /\ sent[i].htf_bias = "SHORT_ONLY"

\* max(50 * point, 2 * (ask - bid))
MinStopDistance(point, bid, ask) == Max2(50 * point, 2 * (ask - bid))

\* the pair in hand has a setup whose stop, at the quote just obtained, is
\* closer to the entry price than the minimum distance
TightCandidate ==
    /\ cycle.pc = "scan"
    /\ last'.tick = "quote"
    /\ \E df \in DataAnswers(PAIRS[cycle.idx]) :
        /\ df.kind = "bars"
        /\ SetupOf(df) # NoSetup
        /\ LET smc == SetupOf(df)
               buy == smc.setup_type = "BULLISH"
               entry == IF buy THEN last'.ask ELSE last'.bid
               stop == IF buy THEN smc.sweep_level - 20 * UNITS_PER_POINT
                       ELSE smc.sweep_level + 20 * UNITS_PER_POINT
           IN  Abs(entry - stop) < MinStopDistance(UNITS_PER_POINT, last'.bid, last'.ask)

\* C18: every order sent has |entry price - stop-loss| >= max(50 * point,
\* 2 * (ask - bid)); a candidate with a smaller distance is skipped: no order
\* is sent for it and the classifier is not consulted.
C18_MinStopDistance ==
    [][/\ sent' # sent =>
            Abs(NewOrder.price - NewOrder.sl)
                >= MinStopDistance(NewOrder.point, NewOrder.bid, NewOrder.ask)
       /\ TightCandidate => (sent' = sent /\ last'.decision = NoResponse)]_vars

\* C19: every order sent has its stop-loss at the sweep level minus the
\* 20-point buffer for a BUY and plus the buffer for a SELL, and the stop is
\* strictly below the entry price for a BUY and strictly above it for a SELL.
C19_StopPlacement ==
    \A i \in 1..Len(sent) :
        /\ sent[i].order_type = "BUY" =>
            /\ sent[i].sl = sent[i].sweep_level - 20 * sent[i].point
            /\ sent[i].sl < sent[i].price
        /\ sent[i].order_type = "SELL" =>
            /\ sent[i].sl = sent[i].sweep_level + 20 * sent[i].point
            /\ sent[i].sl > sent[i].price

\* risk_amount / (stop_distance * contract_size) in hundredths of a lot, as
\* the fraction n / d, for the balance the cycle sizes with
RawLotsN == cycle.current_balance * 15
RawLotsD == 10 * NewOrder.price_distance * NewOrder.contract_size

\* C20 as stated: the lot size sent is risk_amount / (stop_distance *
\* contract_size) with risk_amount = 1.5% of the balance, or MIN_LOT_SIZE
\* when that is smaller.
C20_LotSizeExact ==
    [][sent' # sent =>
        IF RawLotsN < 1 * RawLotsD THEN NewOrder.volume = 1
        ELSE NewOrder.volume * RawLotsD = RawLotsN]_vars

\* C20 amended: the lot size sent is MIN_LOT_SIZE when the raw size is
\* smaller, and otherwise the raw size rounded to the nearest 0.01 lot; with
\* balance 130, stop distance 0.0020 (400 half points) and contract size
\* 100000 the raw size 0.00975 is sent as 0.01 lots, risking 2.00.
C20_LotSizeRounded ==
    [][/\ sent' # sent =>
            IF RawLotsN < 1 * RawLotsD THEN NewOrder.volume = 1
            ELSE 2 * Abs(NewOrder.volume * RawLotsD - RawLotsN) <= RawLotsD
       /\ order_volume_lots(13000, 400, 50) = {1}
       /\ 13000 * 15 < 1 * 10 * 400 * 50
       /\ 1 * 400 * 50 = 100 * 200]_vars

\* an order sent above the minimum lot, rounded up from a raw size that is
\* no whole number of hundredths, and an order sent at the minimum lot
C20_Witness ==
    /\ \E i \in 1..Len(sent) : sent[i].volume > 1
    /\ \E i \in 1..Len(sent) : sent[i].volume = 1

\* C21: every order sent has its take-profit on the trade's side of the entry
\* price, at exactly 3 times the distance between the entry price and the
\* stop-loss sent with it.
C21_ConstantRewardRisk ==
    \A i \in 1..Len(sent) :
        /\ sent[i].order_type = "BUY" =>
            /\ sent[i].tp = sent[i].price + 3 * Abs(sent[i].price - sent[i].sl)
            /\ sent[i].tp > sent[i].price
        /\ sent[i].order_type = "SELL" =>
            /\ sent[i].tp = sent[i].price - 3 * Abs(sent[i].price - sent[i].sl)
            /\ sent[i].tp < sent[i].price

\* the ledger's most recent trade of the pair was entered less than
\* SYMBOL_COOLDOWN_HOURS before the current time (the time at which the pass
\* over the pair reads the clock)
InCooldown(pair) ==
    /\ \E r \in trades : r.symbol = pair
    /\ \A r \in trades :
        (r.symbol = pair /\ \A x \in trades : x.symbol = pair => x.entry_time <= r.entry_time)
            => now - r.entry_time < SYMBOL_COOLDOWN_HOURS

\* C27: the pass over a pair that is in its cooldown submits no order and is
\* followed, without an error, by the pass over the next pair.
C27_SymbolCooldown ==
    [][(ScanStep /\ InCooldown(PAIRS[cycle.idx]))
           => (sent' = sent /\ Continues)]_vars

\* the currencies of a symbol: characters 0-2 and 3-5
Currencies(symbol) == {base_curr(symbol), quote_curr(symbol)}

\* C28: an order is never submitted for a pair whose base or quote currency is
\* exposed by a position open at the broker when the order goes out, a position
\* opened by an order of the same cycle included; so no two orders of one cycle
\* share a currency.
C28_CurrencyExposure ==
    [][sent' # sent =>
          \A p \in positions : Currencies(p.symbol) \cap Currencies(NewOrder.symbol) = {}]_vars

\* the internal swing point of a setup on its series: the most recent swing
\* low (bullish) or swing high (bearish) among the bars before the FVG bar
InternalSwingBar(df, smc) ==
    LET sw == detect_swing_points(df, SWING_LOOKBACK)
    IN  MaxOf({i \in Max2(0, smc.fvg_bar - INDUCEMENT_LOOKBACK)..(smc.fvg_bar - 1) :
                  IF smc.setup_type = "BULLISH" THEN At(sw.swing_low, i) # NaN
                  ELSE At(sw.swing_high, i) # NaN})

\* the series of the pair on which get_smc_setup returns the setup of an order
SeriesOfOrder(order) ==
    {df \in DataAnswers(order.symbol) :
        /\ df.kind = "bars"
        /\ SetupOf(df) # NoSetup
        /\ SetupIdOf(order.symbol, df) = order.setup_id}

\* C30: every order submitted is for a setup whose inducement.swept is true,
\* and the internal swing point of that setup lies at least 6 bars before its
\* FVG bar.
C30_StrictInducementGate ==
    [][sent' # sent =>
          /\ SeriesOfOrder(NewOrder) # {}
          /\ \A df \in SeriesOfOrder(NewOrder) :
                /\ SetupOf(df).inducement.swept
                /\ InternalSwingBar(M15Series[df.name], SetupOf(df))
                       <= SetupOf(df).fvg_bar - 6]_vars

\* an order went out for a swept setup of a pair whose market could also
\* have shown a setup without a swept inducement
C30_Witness ==
    /\ sent # << >>
    /\ SeriesOfOrder(sent[1]) # {}
    /\ \A df \in SeriesOfOrder(sent[1]) : SetupOf(df).inducement.swept
    /\ \E df \in DataAnswers(sent[1].symbol) :
          /\ df.kind = "bars"
          /\ SetupOf(df) # NoSetup
          /\ ~SetupOf(df).inducement.swept

\* --- get_ai_approval on its own -----------------------------------------------
\* The classifier is asked once and get_ai_approval turns its answer into a
\* decision.  A reply is one to three words, possibly padded with whitespace.

ReplyWords ==
    {<<"G", "O">>, <<"g", "o">>, <<"N", "O">>, <<"N", "O", "T">>,
     <<"S", "T", "O", "P">>, <<"s", "t", "o", "p">>}

ReplyTexts ==
    LET one == ReplyWords
        two == {a \o <<" ">> \o b : a \in ReplyWords, b \in ReplyWords}
        three == {a \o <<" ">> \o b : a \in two, b \in ReplyWords}
        plain == one \cup two \cup three
    IN  plain \cup {<<" ">> \o t \o <<"\n">> : t \in plain}

InitAi ==
    /\ bars = << >>
    /\ atrv \in AtrLevels
    /\ setup = NoSetup
    /\ arith = ArithIdle
    /\ EntryIdle
    /\ ai \in [phase : {"asked"},
               response : {[raised |-> TRUE, text |-> << >>]}
                          \cup [raised : {FALSE}, text : ReplyTexts]]

\* decision = get_ai_approval(...)
Decide ==
    /\ ai.phase = "asked"
    /\ ai' = [phase |-> "decided", response |-> ai.response,
              decision |-> get_ai_approval(ai.response)]
    /\ UNCHANGED <<smcVars, arith, entryVars>>

NextAi == Decide

SpecAi == InitAi /\ [][NextAi]_vars

\* the words of a text (split on blanks)
RECURSIVE Words(_, _)
Words(s, w) ==
    IF s = << >> THEN (IF w = << >> THEN << >> ELSE <<w>>)
    ELSE IF IsSpace(Head(s))
         THEN (IF w = << >> THEN << >> ELSE <<w>>) \o Words(Tail(s), << >>)
         ELSE Words(Tail(s), Append(w, Head(s)))

\* a reply that says GO and nothing else
UnambiguousGo(text) ==
    LET ws == Words(upper(text), << >>)
    IN  ws # << >> /\ \A k \in 1..Len(ws) : ws[k] = GO

\* C6 (the gate itself): get_ai_approval answers GO only when the classifier
\* did not raise and its reply is an unambiguous GO; every other reply, and
\* every error, is a STOP.
C6_FailClosedGate ==
    (ai.phase = "decided" /\ ai.decision = "GO")
        => (~ai.response.raised /\ UnambiguousGo(ai.response.text))

(***************************************************************************)
(* utils/arithmetics.py: the functions that take a trade direction, each   *)
(* called once on chosen arguments                                         *)
(***************************************************************************)

\* return liq_p / return lots
Return1(a) == [raised |-> FALSE, value |-> a]

calculate_liquidation_price(entry_price, leverage, type) ==
    IF type \notin {"BUY", "SELL"} THEN ValueError
    ELSE IF leverage.m = << >> THEN ZeroDivisionError
    ELSE IF type = "BUY" THEN
        Return1(FMul(entry_price, FSub(FOfInt(1), FDiv(FOfInt(1), leverage))))
    ELSE
        Return1(FMul(entry_price, FAdd(FOfInt(1), FDiv(FOfInt(1), leverage))))

\* symbol_info(symbol) answered None
NoSymbolInfo == [available |-> FALSE]

\* volume_step in hundredths of a lot
VOLUME_STEP_X100 == 1

\* the body of the try block: the lookup price_dict[type] raises KeyError for
\* a type that is neither key, a missing symbol raises ValueError
convert_usd_to_lots_try(symbol_info_data, usd_amount, type) ==
    IF ~symbol_info_data.available THEN ValueError
    ELSE IF type \notin {"BUY", "SELL"} THEN [raised |-> TRUE]
    ELSE
        LET price == FOfInt(IF type = "BUY" THEN symbol_info_data.ask
                            ELSE symbol_info_data.bid)
            contract_size == FOfInt(symbol_info_data.trade_contract_size)
            lot_step == FOfRatio(VOLUME_STEP_X100, 100)
            product == FMul(contract_size, price)
            lots == FDiv(FOfInt(usd_amount), product)
        IN  IF product.m = << >> THEN ZeroDivisionError
            \* round(lots / lot_step) * lot_step
            ELSE Return1(FMul(FOfInt(FRoundTimes(FDiv(lots, lot_step), 1)), lot_step))

\* except Exception: the error is logged and 0.0 is returned
convert_usd_to_lots(symbol_info_data, usd_amount, type) ==
    LET r == convert_usd_to_lots_try(symbol_info_data, usd_amount, type)
    IN  IF r.raised THEN Return1(FZero) ELSE r

\* directions handed in: the two valid ones, another action word, a valid
\* word in lower case
DirectionsIn == {"BUY", "SELL", "HOLD", "buy"}
SymbolInfos ==
    {NoSymbolInfo,
     [available |-> TRUE, ask |-> 3, bid |-> 2, trade_contract_size |-> 100],
     [available |-> TRUE, ask |-> 7, bid |-> 6, trade_contract_size |-> 10]}
UsdAmounts == {1000, 25000}

InitDirection ==
    /\ bars = << >>
    /\ atrv \in AtrLevels
    /\ setup = NoSetup
    /\ arith \in [phase : {"call"}, x : PricesIn, entry_price : EntryPrices,
                  order_size_usd : OrderSizes, leverage : Leverages,
                  type : DirectionsIn, commission : Commissions,
                  symbol_info_data : SymbolInfos, usd_amount : UsdAmounts]
    /\ ai = AiIdle
    /\ EntryIdle

Returned(fn, out) == [phase |-> "returned", fn |-> fn, out |-> out] @@ arith

CallPriceAtPnl ==
    /\ arith.phase = "call"
    /\ arith' = Returned("get_price_at_pnl", PriceOf(FOfInt(arith.x)))
    /\ UNCHANGED <<smcVars, ai, entryVars>>

CallPnlAtPrice ==
    /\ arith.phase = "call"
    /\ arith' = Returned("get_pnl_at_price", PnlOf(FOfInt(arith.x)))
    /\ UNCHANGED <<smcVars, ai, entryVars>>

CallLiquidationPrice ==
    /\ arith.phase = "call"
    /\ arith' = Returned("calculate_liquidation_price",
                         calculate_liquidation_price(FOfInt(arith.entry_price),
                                                     FOfInt(arith.leverage),
                                                     arith.type))
    /\ UNCHANGED <<smcVars, ai, entryVars>>

CallUsdToLots ==
    /\ arith.phase = "call"
    /\ arith' = Returned("convert_usd_to_lots",
                         convert_usd_to_lots(arith.symbol_info_data,
                                             arith.usd_amount, arith.type))
    /\ UNCHANGED <<smcVars, ai, entryVars>>

NextDirection ==
    CallPriceAtPnl \/ CallPnlAtPrice \/ CallLiquidationPrice \/ CallUsdToLots

SpecDirection == InitDirection /\ [][NextDirection]_vars

\* C11: a sizing or price function called with a direction that is neither
\* BUY nor SELL raises to its caller and returns no number.
C11_InvalidDirectionRaises ==
    (arith.phase = "returned" /\ arith.type \notin {"BUY", "SELL"})
        => arith.out.raised

\* short series, built from nothing: the inputs of the detectors taken alone
MaxShortBars == 5

InitShort ==
    /\ bars = << >>
    /\ atrv \in AtrLevels
    /\ setup = get_smc_setup(<< >>, SWEEP_LOOKBACK, atrv)
    /\ arith = ArithIdle
    /\ ai = AiIdle
    /\ EntryIdle

NewBarShort ==
    /\ Len(bars) < MaxShortBars
    /\ \E b \in BarShapes :
        /\ bars' = Append(bars, b)
        /\ setup' = get_smc_setup(bars', SWEEP_LOOKBACK, atrv)
    /\ UNCHANGED <<atrv, arith, ai, entryVars>>

NextShort == NewBarShort

SpecShort == InitShort /\ [][NextShort]_vars

-----------------------------------------------------------------------------
(* Claims about the setup composer                                         *)

SetupFound == setup.setup_type # "None"

\* the bars get_smc_setup's loop visits
ScanWindow(df, sweep_lookback) ==
    (ScanFloor(Len(df), sweep_lookback) + 1)..(Len(df) - 1)

\* bar i carries an FVG whose midpoint no later bar has touched
UnmitigatedFvgAt(df, i) ==
    LET f == At(detect_fvg(df), i) IN
    /\ f.fvg_signal # "None"
    /\ IF f.fvg_signal = "BULLISH_FVG"
       THEN \A m \in (i + 1)..(Len(df) - 1) :
                CmpMidpoint(At(df, m).low, Val(f.fvg_bottom), Val(f.fvg_top)) > 0
       ELSE \A m \in (i + 1)..(Len(df) - 1) :
                CmpMidpoint(At(df, m).high, Val(f.fvg_bottom), Val(f.fvg_top)) < 0

\* the bars among the 5 before bar i whose sweep has the direction of i's FVG
MatchingSweeps(df, i, sweep_lookback) ==
    LET sig == detect_liquidity_sweep(df, sweep_lookback)
        f == At(detect_fvg(df), i)
    IN  {j \in Max2(0, i - SWEEP_WINDOW)..(i - 1) :
            /\ At(sig, j) # NoLabel
            /\ f.fvg_signal # "None"
            /\ (At(sig, j) = "BULLISH_SWEEP") <=> (f.fvg_signal = "BULLISH_FVG")}

\* the bars among the 5 before bar i that the sweep search takes for a sweep
\* of the direction of i's FVG: a bar labelled BULLISH_SWEEP for a bullish
\* FVG, a bar not labelled BULLISH_SWEEP for a bearish one
AcceptedSweepBars(df, i, sweep_lookback) ==
    LET sig == detect_liquidity_sweep(df, sweep_lookback)
        f == At(detect_fvg(df), i)
    IN  {j \in Max2(0, i - SWEEP_WINDOW)..(i - 1) :
            /\ f.fvg_signal # "None"
            /\ (At(sig, j) = "BULLISH_SWEEP") <=> (f.fvg_signal = "BULLISH_FVG")}

QualifiedFvgAt(df, i, sweep_lookback) ==
    UnmitigatedFvgAt(df, i) /\ AcceptedSweepBars(df, i, sweep_lookback) # {}

\* C2 as stated: the FVG of a returned setup is the most recent unmitigated FVG
\* of the look-back window; no later bar of the window is an unmitigated FVG.
C2_MostRecentUnmitigated ==
    SetupFound =>
        /\ setup.fvg_bar \in ScanWindow(bars, SWEEP_LOOKBACK)
        /\ UnmitigatedFvgAt(bars, setup.fvg_bar)
        /\ \A i \in ScanWindow(bars, SWEEP_LOOKBACK) :
               i > setup.fvg_bar => ~UnmitigatedFvgAt(bars, i)

\* C2 amended: the FVG of a returned setup is the most recent bar of the window
\* that is an unmitigated FVG for which the sweep search among the 5 bars
\* before it succeeds; later unmitigated FVGs for which it fails are passed
\* over.
C2_MostRecentQualified ==
    SetupFound =>
        /\ setup.fvg_bar \in ScanWindow(bars, SWEEP_LOOKBACK)
        /\ QualifiedFvgAt(bars, setup.fvg_bar, SWEEP_LOOKBACK)
        /\ \A i \in ScanWindow(bars, SWEEP_LOOKBACK) :
               i > setup.fvg_bar => ~QualifiedFvgAt(bars, i, SWEEP_LOOKBACK)

\* a setup was returned although a later bar of the window is an unmitigated FVG
C2_Witness ==
    /\ SetupFound
    /\ \E i \in ScanWindow(bars, SWEEP_LOOKBACK) :
           i > setup.fvg_bar /\ UnmitigatedFvgAt(bars, i)

\* C3 as stated: sweep_bar is a matching sweep among the 5 bars before the FVG
\* bar, and of all such bars the one nearest to the FVG bar (largest index).
C3_NearestSweep ==
    SetupFound =>
        /\ setup.sweep_bar \in MatchingSweeps(bars, setup.fvg_bar, SWEEP_LOOKBACK)
        /\ \A j \in MatchingSweeps(bars, setup.fvg_bar, SWEEP_LOOKBACK) :
               j <= setup.sweep_bar

FvgTypes == {"BULLISH_FVG", "BEARISH_FVG"}

\* C9 as stated: for every bar index f and type, once is_fvg_mitigated is true
\* for a series it stays true when further bars are appended.
C9_MitigationMonotone ==
    [][\A f \in 0..(Len(bars) - 1) : \A t \in FvgTypes :
          is_fvg_mitigated(bars, f, t) => is_fvg_mitigated(bars', f, t)]_vars

\* C9 amended: for every bar index f >= 2 (every index at which an FVG can
\* form) and type, once is_fvg_mitigated is true for a series it stays true
\* when further bars are appended.
C9_MitigationMonotoneFvgBars ==
    [][\A f \in 2..(Len(bars) - 1) : \A t \in FvgTypes :
          is_fvg_mitigated(bars, f, t) => is_fvg_mitigated(bars', f, t)]_vars

\* an FVG formed at bar 2, was mitigated by bar 3, and the series grew further
C9_Witness ==
    /\ Len(bars) >= 5
    /\ At(detect_fvg(bars), 2).fvg_signal # "None"
    /\ is_fvg_mitigated(SubSeq(bars, 1, 4), 2, At(detect_fvg(bars), 2).fvg_signal)
    /\ is_fvg_mitigated(bars, 2, At(detect_fvg(bars), 2).fvg_signal)

-----------------------------------------------------------------------------
(* algorithms/mean_reversion/bias.py: break of structure                   *)

\* df[df[col].notna()][col].tolist(): the present values, oldest first
RECURSIVE NotNa(_)
NotNa(col) ==
    IF col = << >> THEN << >>
    ELSE LET rest == NotNa(SubSeq(col, 1, Len(col) - 1))
         IN  IF col[Len(col)] = NaN THEN rest
             ELSE Append(rest, Val(col[Len(col)]))

\* detect_bos content with a single swing high and a single swing low
detect_bos_OneSwing(df, swing_lookback) ==
    IF Len(df) < swing_lookback * 3 THEN "NEUTRAL"
    ELSE
        LET sw == detect_swing_points(df, swing_lookback)
            swing_highs == NotNa(sw.swing_high)
            swing_lows == NotNa(sw.swing_low)
        IN  IF Len(swing_highs) < 1 \/ Len(swing_lows) < 1 THEN "NEUTRAL"
            ELSE
                LET last_close == iloc(df, -1).close
                    last_swing_high == swing_highs[Len(swing_highs)]
                    last_swing_low == swing_lows[Len(swing_lows)]
                IN  IF last_close > last_swing_high THEN "BULLISH"
                    ELSE IF last_close < last_swing_low THEN "BEARISH"
                    ELSE "NEUTRAL"

\* df is never None here: the series is a sequence, possibly empty
detect_bos(df, swing_lookback) ==
    IF Len(df) < swing_lookback * 3 THEN "NEUTRAL"
    ELSE
        LET sw == detect_swing_points(df, swing_lookback)
            swing_highs == NotNa(sw.swing_high)
            swing_lows == NotNa(sw.swing_low)
        IN  IF Len(swing_highs) < 2 \/ Len(swing_lows) < 2 THEN "NEUTRAL"
            ELSE
                LET last_close == iloc(df, -1).close
                    last_swing_high == swing_highs[Len(swing_highs)]
                    last_swing_low == swing_lows[Len(swing_lows)]
                IN  IF last_close > last_swing_high THEN "BULLISH"
                    ELSE IF last_close < last_swing_low THEN "BEARISH"
                    ELSE "NEUTRAL"

-----------------------------------------------------------------------------
(* The detector specification: a short series grows bar by bar and the     *)
(* sweep, swing and break-of-structure detectors run on it with a chosen   *)
(* lookback                                                                *)

MaxDetectBars == 6

\* wicks on both sides of the range, close back inside
Outside == Bar(20, 26, 14, 20)

DetectShapes == {Flat, SweepDown, SweepUp, Outside, GapUp, GapDown}

Lookbacks == {1, 2}

Detect(df, lookback) ==
    [lookback |-> lookback,
     sweep |-> detect_liquidity_sweep(df, lookback),
     swing |-> detect_swing_points(df, lookback),
     bos |-> detect_bos(df, lookback)]

InitDetect ==
    /\ bars = << >>
    /\ atrv = M15_ATR
    /\ \E lookback \in Lookbacks : setup = Detect(<< >>, lookback)
    /\ arith = ArithIdle
    /\ ai = AiIdle
    /\ EntryIdle

NewBarDetect ==
    /\ Len(bars) < MaxDetectBars
    /\ \E b \in DetectShapes :
        /\ bars' = Append(bars, b)
        /\ setup' = Detect(bars', setup.lookback)
    /\ UNCHANGED <<atrv, arith, ai, entryVars>>

NextDetect == NewBarDetect

SpecDetect == InitDetect /\ [][NextDetect]_vars

-----------------------------------------------------------------------------
(* The repeated-call specification: get_smc_setup is called on a growing   *)
(* series, and again on the series it was just called on                   *)

MaxCalls == 2

\* a DataFrame object as fetch_data_pos hands it over: the OHLC rows and no
\* other column
Frame(rows) == [rows |-> rows, cols |-> << >>]

\* df.copy() returning the object it was called on.  objs are the DataFrame
\* objects that exist, df is a reference to one of them
df_copy_SameObject(objs, df) == [objs |-> objs, df |-> df]

\* df.copy(): a new object with the rows and columns of df
df_copy(objs, df) == [objs |-> Append(objs, objs[df]), df |-> Len(objs) + 1]

\* df[name] = series: the column is added to the object, or replaced in it
SetColumn(objs, df, name, series) ==
    [objs EXCEPT ![df].cols = (name :> series) @@ @]

\* df['swing_high'] = ...; df['swing_low'] = ...; return df, on the copy c
WriteSwingColumns(c, sw) ==
    [objs |-> SetColumn(SetColumn(c.objs, c.df, "swing_high", sw.swing_high),
                        c.df, "swing_low", sw.swing_low),
     df |-> c.df]

\* detect_swing_points after its df = df.copy(): the rolling extremes are
\* read from the copy c and the two columns are written to it
SwingPointsOfCopy(c, lookback) ==
    WriteSwingColumns(c, detect_swing_points(c.objs[c.df].rows, lookback))

\* detect_swing_points(df, lookback) on objects
detect_swing_points_on(objs, df, lookback) ==
    SwingPointsOfCopy(df_copy(objs, df), lookback)

\* detect_displacement after its df = df.copy(): atr and body_size are
\* written to the copy c, which is dropped on return; the labels are returned
WriteDisplacementColumns(c, level, atr_period) ==
    [objs |-> SetColumn(
                SetColumn(c.objs, c.df, "atr",
                          ta_atr(c.objs[c.df].rows, atr_period, level)),
                c.df, "body_size",
                [k \in 1..Len(c.objs[c.df].rows) |->
                    Abs(c.objs[c.df].rows[k].close - c.objs[c.df].rows[k].open)]),
     signals |-> detect_displacement(c.objs[c.df].rows, level, atr_period)]

\* detect_displacement(df, threshold, atr_period) on objects
detect_displacement_on(objs, df, level, atr_period) ==
    WriteDisplacementColumns(df_copy(objs, df), level, atr_period)

\* the column `name` of the rows fvg that detect_fvg computes
FvgColumn(fvg, name) == [k \in 1..Len(fvg) |-> fvg[k][name]]

\* the four columns detect_fvg writes to the copy c, which it returns
WriteFvgColumns(c, fvg) ==
    [objs |-> SetColumn(SetColumn(SetColumn(SetColumn(c.objs,
                c.df, "fvg_signal", FvgColumn(fvg, "fvg_signal")),
                c.df, "fvg_top", FvgColumn(fvg, "fvg_top")),
                c.df, "fvg_bottom", FvgColumn(fvg, "fvg_bottom")),
                c.df, "fvg_midpoint", FvgColumn(fvg, "fvg_midpoint")),
     df |-> c.df]

\* detect_fvg after its df = df.copy(): the gaps are read from the rows of
\* the copy c and written to it
FvgOfCopy(c) == WriteFvgColumns(c, detect_fvg(c.objs[c.df].rows))

\* detect_fvg(df) on objects
detect_fvg_on(objs, df) == FvgOfCopy(df_copy(objs, df))

\* the swing columns and the FVG columns the loop of get_smc_setup reads from
\* its frame
SwingColumnsOf(frame) ==
    [swing_high |-> frame.cols["swing_high"], swing_low |-> frame.cols["swing_low"]]
FvgColumnsOf(frame) ==
    [k \in 1..Len(frame.rows) |->
        [fvg_signal |-> frame.cols["fvg_signal"][k],
         fvg_top |-> frame.cols["fvg_top"][k],
         fvg_bottom |-> frame.cols["fvg_bottom"][k],
         fvg_midpoint |-> frame.cols["fvg_midpoint"][k]]]

\* the loop of get_smc_setup over the frame detect_fvg returned
ScanFrame(f, sweep_signals, displacement_signals, sweep_lookback) ==
    [objs |-> f.objs,
     result |-> ScanSetup(f.objs[f.df].rows, SwingColumnsOf(f.objs[f.df]),
                          sweep_signals, displacement_signals,
                          FvgColumnsOf(f.objs[f.df]),
                          Len(f.objs[f.df].rows) - 1,
                          ScanFloor(Len(f.objs[f.df].rows), sweep_lookback))]

\* df = detect_fvg(df) and the loop, d being what detect_displacement left
AfterDisplacement(d, df, sweep_signals, sweep_lookback) ==
    ScanFrame(detect_fvg_on(d.objs, df), sweep_signals, d.signals, sweep_lookback)

\* the detectors that follow detect_swing_points, s being what it returned
AfterSwingPoints(s, sweep_lookback, level) ==
    AfterDisplacement(detect_displacement_on(s.objs, s.df, level, ATR_PERIOD), s.df,
                      detect_liquidity_sweep(s.objs[s.df].rows, sweep_lookback),
                      sweep_lookback)

\* df = detect_swing_points(df.copy(), lookback=5), c being the copy
AfterCopy(c, sweep_lookback, level) ==
    AfterSwingPoints(detect_swing_points_on(c.objs, c.df, SWING_LOOKBACK),
                     sweep_lookback, level)

\* get_smc_setup(df, sweep_lookback, displacement_threshold) on objects: the
\* objects that exist after the call and what the call returned
get_smc_setup_on(objs, df, sweep_lookback, level) ==
    IF Len(objs[df].rows) < sweep_lookback + 10 THEN [objs |-> objs, result |-> NoSetup]
    ELSE AfterCopy(df_copy(objs, df), sweep_lookback, level)

\* the caller keeps what the call returned; its frame is object 1
Returns(r) ==
    /\ setup' = r.result
    /\ bars' = r.objs[1]

\* the caller holds one frame, bars, and keeps what each call returned
InitRepeat ==
    /\ bars = Frame(Prefix)
    /\ atrv \in AtrLevels
    /\ setup = get_smc_setup_on(<<Frame(Prefix)>>, 1, SWEEP_LOOKBACK, atrv).result
    /\ arith = [phase |-> "calls", n |-> 0]
    /\ ai = AiIdle
    /\ EntryIdle

\* a new bar closes and the composer runs on the frame of the longer series
NewBarRepeat ==
    /\ Len(bars.rows) < MaxBars
    /\ \E b \in BarShapes :
        Returns(get_smc_setup_on(<<Frame(Append(bars.rows, b))>>, 1,
                                 SWEEP_LOOKBACK, atrv))
    /\ arith' = [arith EXCEPT !.n = 0]
    /\ UNCHANGED <<atrv, ai, entryVars>>

\* the composer runs once more on the frame the call before it was handed
CallAgain ==
    /\ arith.n < MaxCalls
    /\ Returns(get_smc_setup_on(<<bars>>, 1, SWEEP_LOOKBACK, atrv))
    /\ arith' = [arith EXCEPT !.n = @ + 1]
    /\ UNCHANGED <<atrv, ai, entryVars>>

NextRepeat == NewBarRepeat \/ CallAgain

SpecRepeat == InitRepeat /\ [][NextRepeat]_vars

\* C17: a repeated call of get_smc_setup on the frame and parameters of the
\* call before it returns what that call returned and leaves the frame as it
\* was; a call on a fresh frame leaves it with the rows and columns it was
\* handed; and every result is none or one setup of one direction.
C17_ComposerDeterministic ==
    [][/\ arith'.n = arith.n + 1 => (setup' = setup /\ bars' = bars)
       /\ arith'.n = 0 =>
            /\ bars'.cols = << >>
            /\ SubSeq(bars'.rows, 1, Len(bars.rows)) = bars.rows
       /\ setup' = NoSetup \/ setup'.setup_type \in {"BULLISH", "BEARISH"}]_vars

\* a setup returned by a repeated call on a frame that still has no column
\* but the OHLC rows
C17_Witness ==
    arith.n = MaxCalls /\ setup # NoSetup /\ bars = Frame(bars.rows)

\* the composer on objects returns what get_smc_setup returns for the rows
ComposerOnObjectsAgrees ==
    setup = get_smc_setup(bars.rows, SWEEP_LOOKBACK, atrv)

-----------------------------------------------------------------------------
(* Claims about the detectors taken alone                                  *)

\* the spec's example in half points: high[i-2] = 100, low[i] = 105
FvgExample == <<Bar(190, 200, 180, 190), Bar(200, 212, 198, 210),
                Bar(212, 220, 210, 218)>>

\* C12: every bar that detect_fvg marks, in either direction, has
\* fvg_top > fvg_bottom and fvg_midpoint = (fvg_top + fvg_bottom) / 2; the
\* example gap from 100 up to 105 is BULLISH with midpoint 102.5.
C12_FvgGeometry ==
    /\ \A k \in 1..Len(bars) :
        LET f == detect_fvg(bars)[k] IN
        f.fvg_signal # "None" =>
            /\ f.fvg_signal \in FvgTypes
            /\ Val(f.fvg_top) > Val(f.fvg_bottom)
            /\ 2 * Val(f.fvg_midpoint) = Val(f.fvg_top) + Val(f.fvg_bottom)
    /\ detect_fvg(FvgExample)[3] =
            [fvg_signal |-> "BULLISH_FVG", fvg_top |-> {210},
             fvg_bottom |-> {200}, fvg_midpoint |-> {205}]

\* a series holding a bullish and a bearish FVG
C12_Witness ==
    /\ \E k \in 1..Len(bars) : detect_fvg(bars)[k].fvg_signal = "BULLISH_FVG"
    /\ \E k \in 1..Len(bars) : detect_fvg(bars)[k].fvg_signal = "BEARISH_FVG"

\* the sweep rules of bar i (0-based) for lookback L, read off the series
BullishSweepRule(df, i, L) ==
    /\ i >= L
    /\ At(df, i).low < RangeMinLow(df, i - L, i - 1)
    /\ At(df, i).close > RangeMinLow(df, i - L, i - 1)

BearishSweepRule(df, i, L) ==
    /\ i >= L
    /\ At(df, i).high > RangeMaxHigh(df, i - L, i - 1)
    /\ At(df, i).close < RangeMaxHigh(df, i - L, i - 1)

SweepLabels == {NoLabel, "BULLISH_SWEEP", "BEARISH_SWEEP"}

\* C13 as stated: every bar has at most one label, the first L bars have
\* none, and bar i is BULLISH_SWEEP iff the bullish rule holds of it and
\* BEARISH_SWEEP iff the bearish rule holds of it.
C13_SweepLabelIff ==
    \A k \in 1..Len(bars) :
        LET L == setup.lookback
            label == setup.sweep[k]
        IN  /\ label \in SweepLabels
            /\ k - 1 < L => label = NoLabel
            /\ label = "BULLISH_SWEEP" <=> BullishSweepRule(bars, k - 1, L)
            /\ label = "BEARISH_SWEEP" <=> BearishSweepRule(bars, k - 1, L)

\* C13 amended: every bar has at most one label, the first L bars have none,
\* bar i is BEARISH_SWEEP iff the bearish rule holds of it, and BULLISH_SWEEP
\* iff the bullish rule holds of it and the bearish rule does not.
C13_SweepLabelBearishFirst ==
    \A k \in 1..Len(bars) :
        LET L == setup.lookback
            label == setup.sweep[k]
        IN  /\ label \in SweepLabels
            /\ k - 1 < L => label = NoLabel
            /\ label = "BEARISH_SWEEP" <=> BearishSweepRule(bars, k - 1, L)
            /\ label = "BULLISH_SWEEP" <=>
                    (BullishSweepRule(bars, k - 1, L)
                     /\ ~BearishSweepRule(bars, k - 1, L))

\* a series with a bar meeting both rules and a bar labelled BULLISH_SWEEP
C13_Witness ==
    /\ \E k \in 1..Len(bars) :
            /\ BullishSweepRule(bars, k - 1, setup.lookback)
            /\ BearishSweepRule(bars, k - 1, setup.lookback)
    /\ \E k \in 1..Len(bars) : setup.sweep[k] = "BULLISH_SWEEP"

\* bar k (0-based) holds the single global maximum of the highs, and the
\* lookback fits on both sides of it
SingleGlobalMax(df, k, lookback) ==
    /\ k \in 0..(Len(df) - 1)
    /\ \A j \in 0..(Len(df) - 1) : j # k => At(df, j).high < At(df, k).high
    /\ lookback <= Min2(k, Len(df) - 1 - k)

SwingHighs == {k \in 0..(Len(bars) - 1) : setup.swing.swing_high[k + 1] # NaN}

\* C14 as stated: when the highs have a single global maximum at k and the
\* lookback is at most min(k, n-1-k), bar k and no other bar is a swing high.
C14_OnlyGlobalMaxIsSwingHigh ==
    \A k \in 0..(Len(bars) - 1) :
        SingleGlobalMax(bars, k, setup.lookback) => SwingHighs = {k}

\* C14 amended: under the same condition bar k is a swing high carrying its
\* own high; every swing high, there and in any series, is a bar with
\* lookback bars on each side whose high is the greatest of those 2 * lookback
\* + 1 bars, so any other swing high is a lower, local maximum.
C14_GlobalMaxIsSwingHigh ==
    /\ \A k \in 0..(Len(bars) - 1) :
        SingleGlobalMax(bars, k, setup.lookback) =>
            /\ k \in SwingHighs
            /\ setup.swing.swing_high[k + 1] = {At(bars, k).high}
            /\ \A j \in SwingHighs \ {k} : At(bars, j).high < At(bars, k).high
    /\ \A j \in 0..(Len(bars) - 1) :
        j \in SwingHighs <=>
            /\ j - setup.lookback >= 0
            /\ j + setup.lookback <= Len(bars) - 1
            /\ \A m \in (j - setup.lookback)..(j + setup.lookback) :
                    At(bars, m).high <= At(bars, j).high

\* a series with a single global maximum inside the lookback margin and a
\* second, lower swing high
C14_Witness ==
    \E k \in 0..(Len(bars) - 1) :
        /\ SingleGlobalMax(bars, k, setup.lookback)
        /\ k \in SwingHighs
        /\ SwingHighs # {k}

SwingLows == {k \in 0..(Len(bars) - 1) : setup.swing.swing_low[k + 1] # NaN}

\* the latest close is above the most recent swing high / below the most
\* recent swing low
CloseAboveLastSwingHigh ==
    /\ SwingHighs # {}
    /\ At(bars, Len(bars) - 1).close > At(bars, MaxOf(SwingHighs)).high

CloseBelowLastSwingLow ==
    /\ SwingLows # {}
    /\ At(bars, Len(bars) - 1).close < At(bars, MaxOf(SwingLows)).low

\* C16 as stated: detect_bos is BULLISH if the latest close is above the
\* most recent swing high, BEARISH if it is below the most recent swing low,
\* and NEUTRAL otherwise.
C16_BosByLastSwing ==
    /\ CloseAboveLastSwingHigh => setup.bos = "BULLISH"
    /\ CloseBelowLastSwingLow => setup.bos = "BEARISH"
    /\ (~CloseAboveLastSwingHigh /\ ~CloseBelowLastSwingLow) => setup.bos = "NEUTRAL"

\* the series has 3 * swing_lookback bars or more, two swing highs or more
\* and two swing lows or more
EnoughStructure ==
    /\ Len(bars) >= 3 * setup.lookback
    /\ Cardinality(SwingHighs) >= 2
    /\ Cardinality(SwingLows) >= 2

\* C16 amended: on a series with enough structure detect_bos is BULLISH if
\* the latest close is above the most recent swing high, otherwise BEARISH if
\* it is below the most recent swing low, otherwise NEUTRAL; on any other
\* series it is NEUTRAL.
C16_BosWithTwoSwings ==
    setup.bos =
        IF EnoughStructure /\ CloseAboveLastSwingHigh THEN "BULLISH"
        ELSE IF EnoughStructure /\ CloseBelowLastSwingLow THEN "BEARISH"
        ELSE "NEUTRAL"

\* a bearish break on a series with enough structure
C16_Witness ==
    EnoughStructure /\ CloseBelowLastSwingLow /\ setup.bos = "BEARISH"

-----------------------------------------------------------------------------
(* Claims about the composed setup, checked on the growing series          *)

\* the detector outputs get_smc_setup reads, for the series in hand
SweepSignals == detect_liquidity_sweep(bars, SWEEP_LOOKBACK)
DisplacementSignals == detect_displacement(bars, atrv, ATR_PERIOD)
FvgFrame == detect_fvg(bars)

\* bars sweep_bar .. sweep_bar + 3, clipped to the series
DisplacementWindow == setup.sweep_bar..(Min2(setup.sweep_bar + 4, Len(bars)) - 1)

SetupSweepAgrees ==
    At(SweepSignals, setup.sweep_bar) =
        (IF setup.setup_type = "BULLISH" THEN "BULLISH_SWEEP" ELSE "BEARISH_SWEEP")

SetupFvgAgrees ==
    At(FvgFrame, setup.fvg_bar).fvg_signal =
        (IF setup.setup_type = "BULLISH" THEN "BULLISH_FVG" ELSE "BEARISH_FVG")

\* bar k carries a displacement of the setup's direction
AgreeingDisplacementAt(k) ==
    At(DisplacementSignals, k) =
        (IF setup.setup_type = "BULLISH" THEN "BULLISH_DISPLACEMENT"
         ELSE "BEARISH_DISPLACEMENT")

\* C22: every setup composed has a sweep at sweep_bar, an FVG at fvg_bar and
\* a displacement (somewhere in the series) that all have the setup's
\* direction.
C22_DirectionAgreement ==
    SetupFound =>
        /\ SetupSweepAgrees
        /\ SetupFvgAgrees
        /\ \E k \in 0..(Len(bars) - 1) : AgreeingDisplacementAt(k)

\* the setup get_smc_setup composes for the series in hand when the
\* volatility baseline, and with it the displacement signals, is `level`
SetupAt(level) == get_smc_setup(bars, SWEEP_LOOKBACK, level)

\* C23: displacement_found of a returned setup is true iff some bar in
\* [sweep_bar, sweep_bar + 3] (clipped to the series) carries a displacement
\* of the setup's direction; whether a setup is returned, and every other
\* field of it, is the same whatever the displacement signals are.
C23_DisplacementAdvisory ==
    /\ SetupFound =>
            (setup.displacement_found <=>
                \E k \in DisplacementWindow : AgreeingDisplacementAt(k))
    /\ \A level \in AtrLevels :
            IF SetupFound
            THEN /\ SetupAt(level).setup_type # "None"
                 /\ [SetupAt(level) EXCEPT !.displacement_found =
                                              setup.displacement_found] = setup
            ELSE SetupAt(level) = NoSetup

\* the swing points get_smc_setup marks on the series in hand
SwingFrame == detect_swing_points(bars, SWING_LOOKBACK)

\* the swing lows (bullish) or swing highs (bearish) among the 8 bars before f
InternalSwings(f, bullish) ==
    {i \in Max2(0, f - INDUCEMENT_LOOKBACK)..(f - 1) :
        IF bullish THEN At(SwingFrame.swing_low, i) # NaN
        ELSE At(SwingFrame.swing_high, i) # NaN}

\* the inducement rule for an FVG at bar f: found iff an internal swing
\* exists, level its most recent price, swept iff a bar after the swing
\* point and before f goes strictly beyond the level
InducementRule(f, bullish, ind) ==
    LET swings == InternalSwings(f, bullish) IN
    IF swings = {} THEN ind = NoInducement
    ELSE
        LET s == MaxOf(swings)
            level == IF bullish THEN At(bars, s).low ELSE At(bars, s).high
        IN  /\ ind.found
            /\ ind.level = {level}
            /\ ind.swept <=>
                    \E m \in (s + 1)..(f - 1) :
                        IF bullish THEN At(bars, m).low < level
                        ELSE At(bars, m).high > level

\* C25: the inducement of every returned setup follows the rule for its FVG
\* bar and direction; for an FVG bar with fewer than 8 bars before it the
\* result is found = false, swept = false.
C25_InducementRule ==
    /\ SetupFound =>
            InducementRule(setup.fvg_bar, setup.setup_type = "BULLISH",
                           setup.inducement)
    /\ \A f \in 0..(INDUCEMENT_LOOKBACK - 1), t \in FvgTypes :
            detect_inducement(bars, SwingFrame, f, t, INDUCEMENT_LOOKBACK)
                = NoInducement

\* a setup whose internal swing was swept, on a series long enough for a
\* swing point to be confirmed
C25_Witness ==
    /\ SetupFound
    /\ setup.inducement.found
    /\ setup.inducement.swept

\* bar f carries an FVG whose midpoint a later bar of df has revisited
MitigatedFvgAt(df, f) ==
    LET g == At(detect_fvg(df), f) IN
    /\ g.fvg_signal # "None"
    /\ IF g.fvg_signal = "BULLISH_FVG"
       THEN \E m \in (f + 1)..(Len(df) - 1) :
                CmpMidpoint(At(df, m).low, Val(g.fvg_bottom), Val(g.fvg_top)) <= 0
       ELSE \E m \in (f + 1)..(Len(df) - 1) :
                CmpMidpoint(At(df, m).high, Val(g.fvg_bottom), Val(g.fvg_top)) >= 0

\* C26: the FVG of a returned setup has not had its midpoint revisited by any
\* later bar; and an FVG that is mitigated in a series stays mitigated when a
\* bar is appended and is not the FVG of the setup returned for the longer
\* series (so, step by step, for no extension of the series).
C26_MitigatedNeverUsed ==
    [][/\ setup'.setup_type # "None" => UnmitigatedFvgAt(bars', setup'.fvg_bar)
       /\ \A f \in 0..(Len(bars) - 1) :
            MitigatedFvgAt(bars, f) =>
                /\ MitigatedFvgAt(bars', f)
                /\ ~(setup'.setup_type # "None" /\ setup'.fvg_bar = f)]_vars

\* a setup was returned while a more recent FVG of the window, with a sweep
\* the search accepts, is passed over because it is mitigated
C26_Witness ==
    /\ SetupFound
    /\ \E i \in ScanWindow(bars, SWEEP_LOOKBACK) :
        /\ i > setup.fvg_bar
        /\ MitigatedFvgAt(bars, i)
        /\ AcceptedSweepBars(bars, i, SWEEP_LOOKBACK) # {}

\* the second half of C30 over every series of SpecSMC: in a returned setup
\* with inducement.swept true, the internal swing point lies at least 6 bars
\* before the FVG bar
SweptSwingSixBarsBack ==
    (SetupFound /\ setup.inducement.swept) =>
        InternalSwingBar(bars, setup) <= setup.fvg_bar - 6

\* a swept setup whose internal swing point lies 7 bars back, the nearest it
\* can be: the FVG bar itself never goes beyond the level
SweptSwingSevenBack ==
    /\ SetupFound
    /\ setup.inducement.swept
    /\ InternalSwingBar(bars, setup) = setup.fvg_bar - 7

-----------------------------------------------------------------------------
(* The scan specification: a short series grows from nothing, bar by bar,  *)
(* and get_smc_setup is applied with a small sweep_lookback, so that the   *)
(* series reaches sweep_lookback + 10 and sweep_lookback + 11 bars and     *)
(* every bar of the scan can carry an FVG                                  *)

ScanLookback == 2
MaxScanBars == ScanLookback + 11

ScanShapes == {Flat, GapUp}

InitScan ==
    /\ bars = << >>
    /\ atrv \in AtrLevels
    /\ setup = get_smc_setup(<< >>, ScanLookback, atrv)
    /\ arith = ArithIdle
    /\ ai = AiIdle
    /\ EntryIdle

NewBarScan ==
    /\ Len(bars) < MaxScanBars
    /\ \E b \in ScanShapes :
        /\ bars' = Append(bars, b)
        /\ setup' = get_smc_setup(bars', ScanLookback, atrv)
    /\ UNCHANGED <<atrv, arith, ai, entryVars>>

NextScan == NewBarScan

SpecScan == InitScan /\ [][NextScan]_vars

\* the series is long enough for get_smc_setup to scan it
Accepted == Len(bars) >= ScanLookback + 10

\* the setup is built on the most recent qualified FVG of `window`, and none
\* is returned when no bar of `window` qualifies
ScansExactly(window) ==
    IF SetupFound
    THEN /\ setup.fvg_bar \in window
         /\ QualifiedFvgAt(bars, setup.fvg_bar, ScanLookback)
         /\ \A i \in window :
                i > setup.fvg_bar => ~QualifiedFvgAt(bars, i, ScanLookback)
    ELSE \A i \in window : ~QualifiedFvgAt(bars, i, ScanLookback)

\* C24 as stated: for every accepted series each of the last 10 bars is
\* examined as an FVG candidate and no earlier bar is, also when the series
\* has exactly sweep_lookback + 10 bars; the fvg_bar of a returned setup is
\* one of those bars.
C24_LastTenBars ==
    Accepted => ScansExactly((Len(bars) - 10)..(Len(bars) - 1))

\* C24 amended: the bars examined are the last 10 bars with an index above
\* sweep_lookback: all of the last 10 when the series has at least
\* sweep_lookback + 11 bars, and only the last 9 when it has exactly
\* sweep_lookback + 10; the fvg_bar of a returned setup is one of them.
C24_LastTenAboveLookback ==
    Accepted =>
        ScansExactly(Max2(Len(bars) - 10, ScanLookback + 1)..(Len(bars) - 1))

\* a series of sweep_lookback + 10 bars whose bar sweep_lookback, one of its
\* last 10, is a qualified FVG and is not examined
C24_Witness ==
    /\ Len(bars) = ScanLookback + 10
    /\ QualifiedFvgAt(bars, ScanLookback, ScanLookback)
    /\ ~SetupFound

-----------------------------------------------------------------------------
(* The close specification: positions open and close at the broker while   *)
(* close_algorithm reconciles the ledger, with the positions provider, the *)
(* ledger and the deal lookup free to fail                                  *)

MaxTickets == 2

InitClose ==
    /\ bars = << >>
    /\ atrv = M15_ATR
    /\ setup = NoSetup
    /\ arith = ArithIdle
    /\ ai = AiIdle
    /\ now = 10
    /\ account = NoAccount
    /\ positions = {}
    /\ trades = {}
    /\ sent = << >>
    /\ cycle = [pc |-> "idle"]
    /\ closing = NoCloseRun
    /\ last = [kind |-> "none"]

\* send_market_order answered with an order: the position is open at the
\* broker under the next ticket and create_trade has yet to run
BrokerOpen ==
    /\ cycle.pc = "idle"
    /\ Len(sent) < MaxTickets
    /\ positions' = positions \cup {[ticket |-> Len(sent) + 1, symbol |-> PAIRS[1]]}
    /\ sent' = Append(sent, [symbol |-> PAIRS[1], setup_id |-> <<PAIRS[1], 0>>])
    /\ cycle' = [pc |-> "ledger"]
    /\ last' = [kind |-> "open"]
    /\ UNCHANGED <<smcVars, arith, ai, now, account, trades, closing>>

\* create_trade writes the row of the order just accepted, with the time it
\* reads then, or logs the error of a ledger that fails
RecordOpened ==
    /\ cycle.pc = "ledger"
    /\ \E ledger_ok \in BOOLEAN :
        trades' = create_trade(trades, Len(sent), sent[Len(sent)].symbol,
                               sent[Len(sent)].setup_id, now, ledger_ok)
    /\ cycle' = [pc |-> "idle"]
    /\ last' = [kind |-> "recorded"]
    /\ UNCHANGED <<smcVars, arith, ai, now, account, positions, sent, closing>>

\* the broker closes a position, its row written or not yet
BrokerClosePosition ==
    /\ \E p \in positions : positions' = positions \ {p}
    /\ last' = [kind |-> "broker_close"]
    /\ UNCHANGED <<smcVars, arith, ai, now, account, trades, sent, cycle, closing>>

\* what a run of close_algorithm has seen so far: whether the provider
\* answered, the tickets it took for open, and for each row it went through
\* what the lookup gave and whether close_trade stored it
Seen(run) ==
    [kind |-> "close", provider |-> run.provider,
     mt5_open_tickets |-> run.mt5_open_tickets,
     closed_deal |-> run.closed_deal, stored |-> run.stored]

\* the run is over when no fetched row is left
AfterRow(run) == IF run.todo = {} THEN NoCloseRun ELSE run

\* get_deal_from_ticket is not called for a ticket the list holds
NotLookedUp == [kind |-> "listed"]

\* close_algorithm reads the open positions and keeps their tickets
\* (close.py:39-46); the ledger is read later
ReadPositions ==
    /\ closing.pc = "idle"
    /\ \E pos_ok \in BOOLEAN :
        closing' = [pc |-> "rows", provider |-> pos_ok,
                    mt5_open_tickets |-> Mt5OpenTickets(get_positions(pos_ok))]
    /\ last' = [kind |-> "list"]
    /\ UNCHANGED <<smcVars, arith, ai, now, account, positions, trades, sent, cycle>>

\* the loop fetches the rows the ledger holds open then (close.py:51-56), or
\* the read raises and the outer handler logs it
ReadOpenRows ==
    /\ closing.pc = "rows"
    /\ \E db_ok \in BOOLEAN :
        IF ~db_ok
        THEN /\ closing' = NoCloseRun
             /\ last' = [kind |-> "close_failed"]
        ELSE LET run == [pc |-> "loop", provider |-> closing.provider,
                         mt5_open_tickets |-> closing.mt5_open_tickets,
                         todo |-> {r.ticket : r \in db_open_trades},
                         closed_deal |-> << >>, stored |-> << >>]
             IN  /\ closing' = AfterRow(run)
                 /\ last' = Seen(run)
    /\ UNCHANGED <<smcVars, arith, ai, now, account, positions, trades, sent, cycle>>

\* one pass of the loop body, for one of the rows fetched (close.py:56-128)
SyncRow ==
    /\ closing.pc = "loop"
    /\ \E ticket_id \in closing.todo :
       \E closed_deal \in (IF ticket_id \in closing.mt5_open_tickets
                           THEN {NotLookedUp} ELSE DealAnswers(ticket_id, now)) :
       \E stored \in (IF closed_deal.kind = "deal" THEN BOOLEAN ELSE {FALSE}) :
        LET trade == CHOOSE r \in trades : r.ticket = ticket_id
            run == [closing EXCEPT !.todo = @ \ {ticket_id},
                                   !.closed_deal = (ticket_id :> closed_deal) @@ @,
                                   !.stored = (ticket_id :> stored) @@ @]
        IN  /\ trades' = (trades \ {trade})
                            \cup {SyncTrade(trade, closing.mt5_open_tickets,
                                            closed_deal, stored)}
            /\ closing' = AfterRow(run)
            /\ last' = Seen(run)
    /\ UNCHANGED <<smcVars, arith, ai, now, account, positions, sent, cycle>>

\* time passes between two steps
ClockClose ==
    /\ \E t \in ClockTicks : t > now /\ now' = t
    /\ last' = [kind |-> "clock"]
    /\ UNCHANGED <<smcVars, arith, ai, account, positions, trades, sent, cycle, closing>>

NextClose ==
    \/ BrokerOpen \/ RecordOpened \/ BrokerClosePosition
    \/ ReadPositions \/ ReadOpenRows \/ SyncRow
    \/ ClockClose

SpecClose == InitClose /\ [][NextClose]_vars

\* the row of a ticket after the step
RowAfter(ticket) == CHOOSE r \in trades' : r.ticket = ticket

\* the step writes the row of r closed
MarkedClosed(r) == ~r.closed /\ RowAfter(r.ticket).closed

\* the run of close_algorithm seen in this state got through the row of
\* ticket t: the terminal did not list t, the lookup gave a deal and
\* close_trade wrote the row
Processed(t) ==
    /\ t \in DOMAIN last.closed_deal
    /\ t \notin last.mt5_open_tickets
    /\ last.closed_deal[t].kind = "deal"
    /\ last.stored[t]

\* the run that makes the step got through the row r in the same way
ProcessedNow(r) ==
    /\ last'.kind = "close"
    /\ ~r.closed
    /\ r.ticket \in DOMAIN last'.closed_deal
    /\ r.ticket \notin last'.mt5_open_tickets
    /\ last'.closed_deal[r.ticket].kind = "deal"
    /\ last'.stored[r.ticket]

\* C29: close_algorithm marks a ledger trade closed only when its ticket is
\* absent from the broker's open positions and the lookup found a deal for it,
\* so a trade still open at the broker is never marked closed, whatever the
\* positions provider returned (a list, an empty list or None); and in a run
\* that read the open rows, every row whose deal was found and written is
\* closed, whatever error another row of the same run met.
C29_CloseReconciliation ==
    [][\A r \in trades :
          /\ MarkedClosed(r) =>
                /\ r.ticket \notin {p.ticket : p \in positions}
                /\ last'.kind = "close"
                /\ r.ticket \in DOMAIN last'.closed_deal
                /\ last'.closed_deal[r.ticket].kind = "deal"
          /\ ProcessedNow(r) => MarkedClosed(r)]_vars

\* what the code does keep: a row is marked closed only in a run in which
\* the list the provider answered (empty when it answered None) does not hold
\* the ticket, get_deal_from_ticket returned a deal and close_trade stored
\* it, with the time and profit + commission + swap of that deal; and a row
\* that got that far is closed whatever another row of the run met
CloseOnlyUnlistedWithDeal ==
    [][\A r \in trades :
          /\ MarkedClosed(r) =>
                /\ ProcessedNow(r)
                /\ RowAfter(r.ticket).close_time = last'.closed_deal[r.ticket].deal.time
                /\ RowAfter(r.ticket).pnl =
                       last'.closed_deal[r.ticket].deal.profit
                           + last'.closed_deal[r.ticket].deal.commission
                           + last'.closed_deal[r.ticket].deal.swap
          /\ ProcessedNow(r) => MarkedClosed(r)]_vars

\* a run whose provider answered its list, and which read it before a
\* position opened, closes the row of that position while it is open
StaleListSeen ==
    /\ last.kind = "close"
    /\ last.provider
    /\ \E p \in positions : \E r \in trades :
          /\ r.ticket = p.ticket
          /\ r.closed
          /\ Processed(p.ticket)

\* a run in which the provider gave None while a position was open, the lookup
\* of one row raised and the row of another trade was closed
CloseRunSeen ==
    /\ last.kind = "close"
    /\ last.mt5_open_tickets = {}
    /\ \E p \in positions : \E r \in trades : r.ticket = p.ticket /\ ~r.closed
    /\ \E t1, t2 \in DOMAIN last.closed_deal :
          /\ last.closed_deal[t1].kind = "raise"
          /\ t1 < t2
          /\ Processed(t2)
          /\ \E r \in trades : r.ticket = t2 /\ r.closed

====
